---- MODULE Spec2Model ----
(***************************************************************************)
(* Mind the Gap: the server's freshness cache, the World Bank fetcher, the *)
(* five statistic normalizers with their fallback tables, and the request  *)
(* handlers of server/routes.ts that serve a cached Snapshot as JSON, CSV, *)
(* share card, SVG badge and PNG badge.                                    *)
(*                                                                         *)
(* JavaScript values are modelled by what the code can observe of them:    *)
(*   - a parsed JSON body is a tagged record (JNull, JArr, JObj, JNum);    *)
(*   - numbers are integers counted in tenths (725 is 72.5);               *)
(*   - a completion is Return(v) or Throw(e), so try/catch and a rejected  *)
(*     promise are visible;                                                *)
(*   - an object literal answers  k in obj  and  obj[k]  for the keys of   *)
(*     Object.prototype as well as for its own keys;                       *)
(*   - Date.now() is the variable now, in milliseconds; an ISO timestamp   *)
(*     is modelled by the millisecond it denotes.                          *)
(***************************************************************************)
EXTENDS Integers, Sequences, FiniteSets, Bags, TLC

VARIABLES
    now,        \* Date.now(), milliseconds
    upstream,   \* how the World Bank API currently answers a request
    cache,      \* the module-level object  cache : key -> {data, timestamp}
    inflight,   \* bag of suspended handlers (awaiting their upstream fetches)
    out,        \* the response sent by the step just taken, or NoResponse
    derived,    \* ghost: per cache key, the endpoint that stored its current
                \*        entry and the Snapshots served from that entry
    window,     \* ghost: per cache key, a stored entry's timestamp and the
                \*        Snapshots served during the 24 hours after it
    call,       \* the pure call evaluated by the step just taken (SpecFn)
    build       \* which revision of routes.ts runs: "dashboard" (lines 1-697,
                \* single-location badges) or "comparison" (lines 699-1458,
                \* two-location badges)

vars == <<now, upstream, cache, inflight, out, derived, window, call, build>>

----------------------------------------------------------------------------
(* Configuration of routes.ts *)

CACHE_DURATION == 24 * 60 * 60 * 1000

validStats == <<"paygap", "leadership", "maternal", "healthcare", "workforce">>

Stats == {validStats[i] : i \in 1..Len(validStats)}

Builds == {"dashboard", "comparison"}

dashboardCountryCodeMap ==
    [global |-> "WLD", us |-> "USA", uk |-> "GBR", canada |-> "CAN",
     france |-> "FRA", germany |-> "DEU", japan |-> "JPN", australia |-> "AUS",
     india |-> "IND", brazil |-> "BRA", mexico |-> "MEX",
     sweden |-> "SWE", norway |-> "NOR"]
    @@ ("south-africa" :> "ZAF")

comparisonCountryCodeMap ==
    [global |-> "WLD", us |-> "USA", uk |-> "GBR", canada |-> "CAN",
     mexico |-> "MEX"]

countryCodeMap ==
    IF build = "dashboard" THEN dashboardCountryCodeMap
    ELSE comparisonCountryCodeMap

dashboardLocationNames ==
    [WLD |-> "global", USA |-> "US", GBR |-> "UK", CAN |-> "Canada",
     FRA |-> "France", DEU |-> "Germany", JPN |-> "Japan", AUS |-> "Australia",
     IND |-> "India", BRA |-> "Brazil", MEX |-> "Mexico", ZAF |-> "South Africa",
     SWE |-> "Sweden", NOR |-> "Norway"]

comparisonLocationNames ==
    [WLD |-> "Global", USA |-> "United States", GBR |-> "United Kingdom",
     CAN |-> "Canada", MEX |-> "Mexico"]

locationNames ==
    IF build = "dashboard" THEN dashboardLocationNames
    ELSE comparisonLocationNames

statColors ==
    [paygap |-> "#5271bf", leadership |-> "#b573c3", maternal |-> "#fa7aab",
     healthcare |-> "#ff9686",
     workforce |-> IF build = "dashboard" THEN "#ffc569" ELSE "#ff9686"]

statTitles ==
    [paygap |-> "Gender Pay Gap", leadership |-> "Leadership Representation",
     maternal |-> "Maternal Mortality Rate", healthcare |-> "Contraceptive Access",
     workforce |-> "Workforce Participation"]

\* The indicator each normalizer asks for (the literal in its fetch call).
Indicator ==
    [paygap |-> "SL.EMP.WORK.FE.WE.ZS", leadership |-> "SG.GEN.PARL.ZS",
     maternal |-> "SH.STA.MMRT", healthcare |-> "SP.DYN.CONM.ZS",
     workforce |-> "SL.TLF.TOTL.FE.ZS"]

----------------------------------------------------------------------------
(* JavaScript values *)

\* Names every object literal inherits from Object.prototype.
ObjectPrototypeKeys ==
    {"constructor", "toString", "valueOf", "hasOwnProperty", "__proto__"}

\* String(Object.prototype[k]): what an inherited member becomes once it is
\* interpolated into a URL or used as a property key.
ProtoValue(k) ==
    CASE k = "constructor" -> "function Object() { [native code] }"
      [] k = "__proto__" -> "[object Object]"
      [] OTHER -> "function " \o k \o "() { [native code] }"

\* key in obj
HasIn(obj, k) == k \in DOMAIN obj \/ k \in ObjectPrototypeKeys

\* obj[key] is not undefined
Defined(obj, k) == HasIn(obj, k)

\* obj[key], where Defined(obj, key)
Get(obj, k) == IF k \in DOMAIN obj THEN obj[k] ELSE ProtoValue(k)

JNull == [t |-> "null"]
JUndefined == [t |-> "undefined"]
JNum(n) == [t |-> "number", n |-> n]
JArr(items) == [t |-> "array", items |-> items]
JObj(fields) == [t |-> "object", fields |-> fields]

\* ToBoolean(v)
Truthy(v) ==
    CASE v.t = "null" -> FALSE
      [] v.t = "undefined" -> FALSE
      [] v.t = "number" -> v.n /= 0
      [] OTHER -> TRUE

\* v[i] for a value that is not null (arrays are indexed from 0)
Index(v, i) ==
    IF v.t = "array" /\ i + 1 \in 1..Len(v.items) THEN v.items[i + 1]
    ELSE JUndefined

\* v.name for a value that is not null or undefined
Field(v, name) ==
    IF v.t = "object" /\ name \in DOMAIN v.fields THEN v.fields[name]
    ELSE JUndefined

\* v.length > 0
LengthPositive(v) == v.t = "array" /\ Len(v.items) > 0

Return(v) == [c |-> "return", v |-> v]
Throw(e) == [c |-> "throw", e |-> e]

\* Math.round of a number given in tenths: the nearest integer, ties upward.
MathRound(tenths) == (tenths + 5) \div 10

----------------------------------------------------------------------------
(* The upstream provider (environment) *)

UpstreamOutcomes ==
    {"network_error", "not_json", "json_null", "no_second", "second_null",
     "empty", "obs_null", "obs_zero", "obs"}

\* The provider's latest observation per metric: value in tenths, year.
Series ==
    [paygap |-> [value |-> 915, year |-> 2022],
     leadership |-> [value |-> 285, year |-> 2023],
     maternal |-> [value |-> 214, year |-> 2020],
     healthcare |-> [value |-> 666, year |-> 2019],
     workforce |-> [value |-> 464, year |-> 2023]]

MetricOf(indicator) == CHOOSE m \in Stats : Indicator[m] = indicator

Meta == JObj([page |-> JNum(10), pages |-> JNum(10)])

Observation(value, year, countryCode) ==
    JObj([value |-> value, date |-> ToString(year), country |-> countryCode])

\* The body the provider sends for a URL when it answers with JSON: with
\* mrv=1, the most recent observation inside the requested date range.
UpstreamBody(outcome, url) ==
    LET s == Series[MetricOf(url.indicator)]
        obs(v) == JArr(<<Meta, JArr(<<Observation(v, s.year, url.country)>>)>>)
    IN  CASE outcome = "json_null" -> JNull
          [] outcome = "no_second" -> JArr(<<JObj([message |-> JNum(1200)])>>)
          [] outcome = "second_null" -> JArr(<<Meta, JNull>>)
          [] outcome = "empty" -> JArr(<<Meta, JArr(<<>>)>>)
          [] outcome = "obs_null" -> obs(JNull)
          [] outcome = "obs_zero" -> obs(JNum(0))
          [] OTHER ->
                IF s.year \in url.from..url.to THEN obs(JNum(s.value))
                ELSE JArr(<<Meta, JNull>>)

----------------------------------------------------------------------------
(* Indicator Fetcher *)

\* s.includes(sub)
Includes(s, sub) ==
    \E i \in 1..(Len(s) - Len(sub) + 1) : SubSeq(s, i, i + Len(sub) - 1) = sub

\* The URL of fetchWorldBankData: country, indicator and date range.
FetchUrl(countryCode, indicator) ==
    [country |-> countryCode, indicator |-> indicator,
     from |-> IF Includes(indicator, "CONM") THEN 2015 ELSE 2020,
     to |-> 2024]

\* The body of the try block: fetch, response.json(), data[1], data[1][0].
FetchTry(countryCode, indicator, outcome) ==
    IF outcome = "network_error" THEN Throw("TypeError: fetch failed")
    ELSE IF outcome = "not_json" THEN Throw("SyntaxError: Unexpected token")
    ELSE LET data == UpstreamBody(outcome, FetchUrl(countryCode, indicator))
         IN  IF data.t = "null"
             THEN Throw("TypeError: Cannot read properties of null")
             ELSE IF Truthy(Index(data, 1)) /\ LengthPositive(Index(data, 1))
                  THEN Return(Index(Index(data, 1), 0))
                  ELSE Return(JNull)

\* A fetcher that lets the failure of the try block reach its caller.
FetchNoCatch(countryCode, indicator, outcome) ==
    FetchTry(countryCode, indicator, outcome)

fetchWorldBankData(countryCode, indicator, outcome) ==
    LET r == FetchTry(countryCode, indicator, outcome)
    IN  IF r.c = "throw" THEN Return(JNull) ELSE r

----------------------------------------------------------------------------
(* Fallback Table *)

getLocationName(code) ==
    IF Defined(locationNames, code) THEN Get(locationNames, code) ELSE "global"

\* A lookup without the default entry: undefined for a code with no row.
OrNothing(fallbacks, countryCode) ==
    IF countryCode \in DOMAIN fallbacks THEN fallbacks[countryCode]
    ELSE [inherited |-> "undefined"]

\* fallbacks[countryCode] || fallbacks['WLD']
OrWorld(fallbacks, countryCode) ==
    IF countryCode \in DOMAIN fallbacks THEN fallbacks[countryCode]
    ELSE IF countryCode \in ObjectPrototypeKeys
         THEN [inherited |-> ProtoValue(countryCode)]
         ELSE fallbacks["WLD"]

PayGapFallbacks(locationName) ==
    LET row(v) == [value |-> v,
                   detail |-> "Gender pay gap: " \o v \o " (" \o locationName \o ")",
                   source |-> "World Bank / ILO"]
    IN  [WLD |-> row("16%"), USA |-> row("16%"), GBR |-> row("14%"),
         CAN |-> row("13%")]

LeadershipFallbacks(locationName) ==
    LET row(v) == [value |-> v,
                   detail |-> "Women in parliament: " \o v \o " (" \o locationName \o ")",
                   source |-> "World Bank / IPU"]
    IN  [WLD |-> row("27%"), USA |-> row("29%"), GBR |-> row("35%"),
         CAN |-> row("31%")]

MaternalMortalityFallbacks(locationName) ==
    LET row(v) == [value |-> v,
                   detail |-> "Maternal mortality ratio: " \o v
                              \o " per 100k live births (" \o locationName \o ")",
                   source |-> "WHO/UNICEF/UNFPA/World Bank"]
    IN  [WLD |-> row("223"), USA |-> row("22"), GBR |-> row("10"),
         CAN |-> row("11")]

ContraceptiveAccessFallbacks(locationName) ==
    LET row(label, v) == [value |-> v,
                          detail |-> label \o v \o " (" \o locationName \o ")",
                          source |-> "World Bank / UN Population Division"]
    IN  [WLD |-> row("Women without modern contraception access: ", "218M"),
         USA |-> row("Women in contraceptive deserts: ", "19M"),
         GBR |-> row("Contraceptive access rate: ", "92%"),
         CAN |-> row("Contraceptive access rate: ", "88%")]

WorkforceParticipationFallbacks(locationName) ==
    LET row(v) == [value |-> v,
                   detail |-> "Women in workforce: " \o v \o " (" \o locationName \o ")",
                   source |-> "World Bank / ILO"]
    IN  [WLD |-> [value |-> "47%", detail |-> "Women in global workforce: 47%",
                  source |-> "World Bank / ILO"],
         USA |-> row("57%"), GBR |-> row("56%"), CAN |-> row("61%")]

getFallbackPayGap(countryCode) ==
    OrWorld(PayGapFallbacks(getLocationName(countryCode)), countryCode)

getFallbackLeadership(countryCode) ==
    OrWorld(LeadershipFallbacks(getLocationName(countryCode)), countryCode)

getFallbackMaternalMortality(countryCode) ==
    OrWorld(MaternalMortalityFallbacks(getLocationName(countryCode)), countryCode)

getFallbackContraceptiveAccess(countryCode) ==
    OrWorld(ContraceptiveAccessFallbacks(getLocationName(countryCode)), countryCode)

getFallbackWorkforceParticipation(countryCode) ==
    OrWorld(WorkforceParticipationFallbacks(getLocationName(countryCode)), countryCode)

Fallback(metric, countryCode) ==
    CASE metric = "paygap" -> getFallbackPayGap(countryCode)
      [] metric = "leadership" -> getFallbackLeadership(countryCode)
      [] metric = "maternal" -> getFallbackMaternalMortality(countryCode)
      [] metric = "healthcare" -> getFallbackContraceptiveAccess(countryCode)
      [] metric = "workforce" -> getFallbackWorkforceParticipation(countryCode)

----------------------------------------------------------------------------
(* Statistic Normalizers *)

\* The statistic a normalizer builds from an observation whose value is truthy.
Live(label, n, suffix, tail, data, source) ==
    [value |-> ToString(n) \o suffix,
     detail |-> label \o ToString(n) \o suffix \o tail,
     year |-> Field(data, "date"),
     source |-> source]

\* data && data.value
HasValue(data) == Truthy(data) /\ Truthy(Field(data, "value"))

\* The same shape with the test written  data.value  alone: reading a
\* property of null throws.
NormalizeUnguarded(fetched, live, fallback) ==
    IF fetched.c = "throw" THEN fetched
    ELSE IF fetched.v.t = "null"
         THEN Throw("TypeError: Cannot read properties of null")
         ELSE IF Truthy(Field(fetched.v, "value")) THEN Return(live)
              ELSE Return(fallback)

\* The shape shared by the five normalizers: await the fetcher (a rejection
\* propagates), then the live statistic (built only in that branch) or the
\* fallback.
Normalize(fetched, live, fallback) ==
    IF fetched.c = "throw" THEN fetched
    ELSE IF HasValue(fetched.v) THEN Return(live)
         ELSE Return(fallback)

getPayGap(countryCode, outcome) ==
    LET fetched == fetchWorldBankData(countryCode, Indicator["paygap"], outcome)
        data == fetched.v
        live ==
            LET gap == 1000 - Field(data, "value").n
            IN  Live("Gender pay gap: ", MathRound(gap), "%",
                     " (" \o getLocationName(countryCode) \o ")",
                     data, "World Bank / ILO")
    IN  Normalize(fetched, live, getFallbackPayGap(countryCode))

getLeadership(countryCode, outcome) ==
    LET fetched == fetchWorldBankData(countryCode, Indicator["leadership"], outcome)
        data == fetched.v
        live ==
            Live("Women in parliament: ", MathRound(Field(data, "value").n), "%",
                 " (" \o getLocationName(countryCode) \o ")",
                 data, "World Bank / IPU")
    IN  Normalize(fetched, live, getFallbackLeadership(countryCode))

getMaternalMortality(countryCode, outcome) ==
    LET fetched == fetchWorldBankData(countryCode, Indicator["maternal"], outcome)
        data == fetched.v
        live ==
            Live("Maternal mortality ratio: ", MathRound(Field(data, "value").n), "",
                 " per 100k live births (" \o getLocationName(countryCode) \o ")",
                 data, "WHO/UNICEF/UNFPA/World Bank")
    IN  Normalize(fetched, live, getFallbackMaternalMortality(countryCode))

getContraceptiveAccess(countryCode, outcome) ==
    LET fetched == fetchWorldBankData(countryCode, Indicator["healthcare"], outcome)
        data == fetched.v
        live ==
            Live("Contraceptive access rate: ", MathRound(Field(data, "value").n), "%",
                 " (" \o getLocationName(countryCode) \o ")",
                 data, "World Bank / UN Population Division")
    IN  Normalize(fetched, live, getFallbackContraceptiveAccess(countryCode))

getWorkforceParticipation(countryCode, outcome) ==
    LET fetched == fetchWorldBankData(countryCode, Indicator["workforce"], outcome)
        data == fetched.v
        live ==
            Live("Women in workforce: ", MathRound(Field(data, "value").n), "%",
                 " (" \o getLocationName(countryCode) \o ")",
                 data, "World Bank / ILO")
    IN  Normalize(fetched, live, getFallbackWorkforceParticipation(countryCode))

\* The normalizer at each position of the Promise.all array.
Normalizer(metric, countryCode, outcome) ==
    CASE metric = "paygap" -> getPayGap(countryCode, outcome)
      [] metric = "leadership" -> getLeadership(countryCode, outcome)
      [] metric = "maternal" -> getMaternalMortality(countryCode, outcome)
      [] metric = "healthcare" -> getContraceptiveAccess(countryCode, outcome)
      [] metric = "workforce" -> getWorkforceParticipation(countryCode, outcome)

----------------------------------------------------------------------------
(* Representation Renderers *)

\* text.replace(/ch/g, rep), from position i on
RECURSIVE ReplaceFrom(_, _, _, _)
ReplaceFrom(text, i, ch, rep) ==
    IF i > Len(text) THEN ""
    ELSE (IF SubSeq(text, i, i) = ch THEN rep ELSE SubSeq(text, i, i))
         \o ReplaceFrom(text, i + 1, ch, rep)

\* text.replace(/ch/g, rep): the text itself when ch does not occur in it
ReplaceAll(text, ch, rep) ==
    IF \E i \in 1..Len(text) : SubSeq(text, i, i) = ch
    THEN ReplaceFrom(text, 1, ch, rep)
    ELSE text

\* The five replacements with the ampersand replaced last.
escapeAmpersandLast(text) ==
    ReplaceAll(ReplaceAll(ReplaceAll(ReplaceAll(ReplaceAll(text,
        "<", "&lt;"), ">", "&gt;"), "\"", "&quot;"), "'", "&apos;"), "&", "&amp;")

escapeSvgText(text) ==
    ReplaceAll(ReplaceAll(ReplaceAll(ReplaceAll(ReplaceAll(text,
        "&", "&amp;"), "<", "&lt;"), ">", "&gt;"), "\"", "&quot;"), "'", "&apos;")

\* text.substring(0, n)
Substring0(text, n) == SubSeq(text, 1, IF Len(text) < n THEN Len(text) ELSE n)

\* text.toUpperCase() of the location names of the comparison revision
ToUpperCase(text) ==
    CASE text = "Global" -> "GLOBAL"
      [] text = "United States" -> "UNITED STATES"
      [] text = "United Kingdom" -> "UNITED KINGDOM"
      [] text = "Canada" -> "CANADA"
      [] text = "Mexico" -> "MEXICO"
      [] OTHER -> text

\* statistic.year || ''  and  statistic.source || ''
OrEmpty(statistic, name) ==
    IF name \in DOMAIN statistic THEN statistic[name] ELSE ""

CsvRow(title, statistic) ==
    title \o "," \o statistic.value \o ",\"" \o statistic.detail \o "\","
    \o OrEmpty(statistic, "year") \o "," \o OrEmpty(statistic, "source")

\* The CSV text of the export endpoint: the array of lines joined by \n.
Csv(stats) ==
    "Metric,Value,Detail,Year,Source"
    \o "\n" \o CsvRow("Gender Pay Gap", stats.paygap)
    \o "\n" \o CsvRow("Leadership Representation", stats.leadership)
    \o "\n" \o CsvRow("Maternal Mortality", stats.maternal)
    \o "\n" \o CsvRow("Contraceptive Access", stats.healthcare)
    \o "\n" \o CsvRow("Workforce Participation", stats.workforce)

\* country || 'global'
Location(country) == IF country = "" THEN "global" ELSE country

\* countryCodeMap[location] || 'WLD'
CountryCodeOrWorld(location) ==
    IF Defined(countryCodeMap, location) THEN Get(countryCodeMap, location)
    ELSE "WLD"

\* What  stats[stat]  is: a Statistic, the lastUpdated string, a member
\* inherited from Object.prototype, or undefined.
StatKind(stat) ==
    CASE stat \in Stats -> "statistic"
      [] stat = "lastUpdated" -> "string"
      [] stat \in ObjectPrototypeKeys -> "inherited"
      [] OTHER -> "undefined"

\* statColors[stat] || '#5271bf'
StatColor(stat) == IF stat \in DOMAIN statColors THEN statColors[stat] ELSE "#5271bf"

\* statTitles[stat] || 'Statistic'
StatTitle(stat) == IF stat \in DOMAIN statTitles THEN statTitles[stat] ELSE "Statistic"

\* The share card: the texts interpolated into its markup, in order.
ShareSvg(stat, location, data) ==
    [markup |-> "share", fill |-> StatColor(stat), title |-> StatTitle(stat),
     location |-> getLocationName(CountryCodeOrWorld(location)),
     value |-> data.value, detail |-> Substring0(data.detail, 80),
     source |-> IF "source" \in DOMAIN data THEN data.source ELSE "World Bank"]

\* The single-location badge: the texts interpolated into its markup.
BadgeSvg(stat, data) ==
    [markup |-> "badge", fill |-> StatColor(stat),
     detail |-> escapeSvgText(data.detail), value |-> escapeSvgText(data.value)]

\* The two-location badge: the texts interpolated into its markup.
CompareSvg(stat, location1, location2, data1, data2) ==
    [markup |-> "comparison", fill |-> StatColor(stat),
     name1 |-> escapeSvgText(ToUpperCase(getLocationName(Get(countryCodeMap, location1)))),
     value1 |-> escapeSvgText(data1.value),
     name2 |-> escapeSvgText(ToUpperCase(getLocationName(Get(countryCodeMap, location2)))),
     value2 |-> escapeSvgText(data2.value),
     title |-> escapeSvgText(StatTitle(stat))]

----------------------------------------------------------------------------
(* Freshness Cache *)

\* A key template that differs from one endpoint to the next.
cacheKeyPerEndpoint(ep, location) == ep \o "_" \o location

\* const cacheKey = `stats_${location}`, as written in the handler of ep
cacheKey(ep, location) == "stats_" \o location

\* f with f[k] = v
Put(f, k, v) == [x \in DOMAIN f \cup {k} |-> IF x = k THEN v ELSE f[x]]

\* A validity test that never accepts an entry.
CacheNeverValid(key) == FALSE

\* A validity test that ignores the age of the entry.
CacheValidForever(key) == key \in DOMAIN cache

\* A validity test that still accepts an entry aged exactly 24 hours.
CacheValidInclusive(key) ==
    key \in DOMAIN cache /\ (now - cache[key].timestamp) <= CACHE_DURATION

\* cached && (Date.now() - cached.timestamp) < CACHE_DURATION
CacheValid(key) ==
    key \in DOMAIN cache /\ (now - cache[key].timestamp) < CACHE_DURATION

\* A write that keeps an entry already present (first write wins).
CachePutIfAbsent(key, stats) ==
    IF key \in DOMAIN cache THEN cache
    ELSE Put(cache, key, [data |-> stats, timestamp |-> now])

\* A write stamped with the time its request made the cache check (the
\* earliest such time among the handlers suspended on the key).
CachePutAtStart(key, stats) ==
    LET starts == {h.parts[i].at : <<h, i>> \in
                     {<<g, j>> \in UNION {{g} \X DOMAIN g.parts :
                                            g \in BagToSet(inflight)} :
                        g.parts[j].key = key}}
        first == IF starts = {} THEN now
                 ELSE CHOOSE t \in starts : \A u \in starts : t <= u
    IN  Put(cache, key, [data |-> stats, timestamp |-> first])

\* cache[cacheKey] = { data: stats, timestamp: Date.now() }
CachePut(key, stats) == Put(cache, key, [data |-> stats, timestamp |-> now])

----------------------------------------------------------------------------
(* Aggregate Statistics Builder *)

Pending == [c |-> "pending"]

\* A Snapshot assembled without waiting for the last of the five.
SnapshotWithoutLast(slots) ==
    [paygap |-> slots["paygap"].v, leadership |-> slots["leadership"].v,
     maternal |-> slots["maternal"].v, healthcare |-> slots["healthcare"].v,
     lastUpdated |-> now]

\* The Snapshot assembled from the five settled normalizers.
Snapshot(slots) ==
    [paygap |-> slots["paygap"].v, leadership |-> slots["leadership"].v,
     maternal |-> slots["maternal"].v, healthcare |-> slots["healthcare"].v,
     workforce |-> slots["workforce"].v, lastUpdated |-> now]

\* Promise.all has resolved: every normalizer returned.
Settled(slots) == \A m \in Stats : slots[m].c = "return"

\* A hit that stamps the time of the request on the Snapshot it returns.
ReadCachedRestamped(key) == [cache[key].data EXCEPT !.lastUpdated = now]

\* cached.data
ReadCached(key) == cache[key].data

\* const cached = cache[cacheKey]: the entry the check found (none or one).
Seen(key) == IF key \in DOMAIN cache THEN <<cache[key]>> ELSE <<>>

\* The cache block of a handler (or getStatsForCountry) up to its first
\* await: either the cached Snapshot, or five normalizer calls in flight.
\* seen and at record what the check found and when it ran.
StartPart(ep, location, countryCode) ==
    LET key == cacheKey(ep, location)
    IN  IF CacheValid(key)
        THEN [location |-> location, key |-> key, hit |-> TRUE,
              seen |-> Seen(key), at |-> now,
              stats |-> ReadCached(key), ts |-> cache[key].timestamp]
        ELSE [location |-> location, key |-> key, hit |-> FALSE,
              seen |-> Seen(key), at |-> now,
              code |-> countryCode, slots |-> [m \in Stats |-> Pending]]

PartDone(p) == "stats" \in DOMAIN p

AllDone(h) == \A i \in 1..Len(h.parts) : PartDone(h.parts[i])

PendingOf(p) == {m \in Stats : p.slots[m].c = "pending"}

\* Upstream fetches a handler has issued: five per part that missed.
Fetches(parts) == 5 * Cardinality({i \in 1..Len(parts) : ~parts[i].hit})

----------------------------------------------------------------------------
(* Responses *)

NoResponse == [status |-> 0]
NoHeader == "(not set)"
Day == "public, max-age=86400"
Hour == "public, max-age=3600"

\* res.status(status) ... send(body), with the headers set before it; the
\* handler's request and what its cache blocks did are kept with it.
Respond(h, status, contentType, cacheControl, body) ==
    [status |-> status, contentType |-> contentType,
     cacheControl |-> cacheControl, body |-> body,
     ep |-> h.ep, stat |-> h.stat, parts |-> h.parts,
     fetches |-> Fetches(h.parts)]

\* The catch block of each handler.
Failure(h) ==
    CASE h.ep = "stats" ->
            Respond(h, 500, "application/json", NoHeader, "Failed to fetch statistics")
      [] h.ep = "export" ->
            Respond(h, 500, "application/json", NoHeader, "Failed to export data")
      [] h.ep = "share" ->
            Respond(h, 500, "text/html", NoHeader, "Failed to generate share card")
      [] h.ep \in {"badge", "compare"} ->
            Respond(h, 500, "text/html", Hour, "Failed to generate badge")
      [] h.ep \in {"badge-png", "compare-png"} ->
            Respond(h, 500, "text/html", Hour, "Failed to generate PNG badge")

\* A raster made from markup in another colour than the one it was given.
RasterizeRecoloured(svg) == [png |-> [svg EXCEPT !.fill = "#000000"]]

\* sharp(Buffer.from(svg.trim())).png().toBuffer(): the raster of the markup.
Rasterize(svg) == [png |-> svg]

\* The handler from the point where stats is bound to its response. The PNG
\* endpoints await sharp first: sharpOk says whether the rasterizer resolves
\* or rejects (a rejection reaches the catch block). sharp reads and writes
\* nothing but the markup handed to it, so its await is folded into the step.
AfterStats(h, sharpOk) ==
    LET stats == h.parts[1].stats
        location == h.parts[1].location
        kind == StatKind(h.stat)
        sent(r) == r
        raster(svg) == IF sharpOk
                       THEN Respond(h, 200, "image/png", Day, Rasterize(svg))
                       ELSE Failure(h)
    IN  CASE h.ep = "stats" ->
                sent(Respond(h, 200, "application/json", NoHeader, stats))
          [] h.ep = "export" ->
                IF h.format = "csv"
                THEN sent(Respond(h, 200, "text/csv", NoHeader, Csv(stats)))
                ELSE sent(Respond(h, 200, "application/json", NoHeader, stats))
          [] h.ep = "share" ->
                IF kind \in {"undefined", "string"}
                THEN sent(Respond(h, 404, "text/html", NoHeader, "Stat not found"))
                ELSE IF kind = "inherited" THEN sent(Failure(h))
                ELSE sent(Respond(h, 200, "image/svg+xml", Day,
                                  ShareSvg(h.stat, location, stats[h.stat])))
          [] h.ep \in {"badge", "badge-png"} ->
                IF kind \in {"undefined", "string"}
                THEN sent(Respond(h, 404, "text/html", Day, "Stat not found"))
                ELSE IF kind = "inherited" THEN sent(Failure(h))
                ELSE IF h.ep = "badge"
                     THEN sent(Respond(h, 200, "image/svg+xml", Day,
                                       BadgeSvg(h.stat, stats[h.stat])))
                     ELSE raster(BadgeSvg(h.stat, stats[h.stat]))
          [] h.ep \in {"compare", "compare-png"} ->
                LET svg == CompareSvg(h.stat, location, h.parts[2].location,
                                      stats[h.stat], h.parts[2].stats[h.stat])
                IN  IF kind \in {"undefined", "string"}
                    THEN sent(Respond(h, 404, "text/html", Day, "Stat not found"))
                    ELSE IF kind = "inherited" THEN sent(Failure(h))
                    ELSE IF h.ep = "compare"
                         THEN sent(Respond(h, 200, "image/svg+xml", Day, svg))
                         ELSE raster(svg)

----------------------------------------------------------------------------
(* Ghost bookkeeping: which Snapshots were served from which entry *)

\* A hit adds the Snapshot it took to those served from the key's entry.
DeriveHit(d, p) ==
    IF p.hit /\ p.key \in DOMAIN d
    THEN Put(d, p.key, [d[p.key] EXCEPT !.snaps = @ \cup {p.stats}])
    ELSE d

RECURSIVE DeriveHits(_, _)
DeriveHits(d, parts) ==
    IF parts = <<>> THEN d
    ELSE DeriveHits(DeriveHit(d, Head(parts)), Tail(parts))

\* A Snapshot served now is added to the key's window while fewer than 24
\* hours have passed since the window's entry was stored; otherwise the
\* entry it came from opens a new window.
ObservePart(w, p) ==
    IF p.key \in DOMAIN w /\ now - w[p.key].start < CACHE_DURATION
    THEN Put(w, p.key, [w[p.key] EXCEPT !.snaps = @ \cup {p.stats}])
    ELSE IF now - p.ts < CACHE_DURATION
         THEN Put(w, p.key, [start |-> p.ts, snaps |-> {p.stats}])
         ELSE w

RECURSIVE ObserveParts(_, _)
ObserveParts(w, parts) ==
    IF parts = <<>> THEN w
    ELSE ObserveParts(ObservePart(w, Head(parts)), Tail(parts))

Observe(w, resp) == IF resp.status = 200 THEN ObserveParts(w, resp.parts) ELSE w

----------------------------------------------------------------------------
(* Bounds and request inputs *)

MaxInFlight == 2    \* handlers suspended at the same time
MaxTicks == 2       \* clock advances in one behaviour

TickSteps == {1, CACHE_DURATION - 1}

\* How many advances produced the current time.
Ticks == (now \div (CACHE_DURATION - 1)) + (now % (CACHE_DURATION - 1))

RequestCountries == {"mexico"}
RequestStats == {"paygap", "bogus"}
RequestFormats == {"csv", "json"}
CoarseOutcomes == {"obs", "network_error"}

Room == BagCardinality(inflight) < MaxInFlight

----------------------------------------------------------------------------
(* Request handlers *)

\* A handler that has run its synchronous prefix: it either answers in the
\* same step (every part was a hit and nothing is awaited) or is suspended.
Launch(h, sharpOk) ==
    /\ derived' = DeriveHits(derived, h.parts)
    /\ IF AllDone(h)
       THEN /\ inflight' = inflight
            /\ out' = AfterStats(h, sharpOk)
            /\ window' = Observe(window, out')
       ELSE /\ Room
            /\ inflight' = inflight (+) SetToBag({h})
            /\ out' = NoResponse
            /\ window' = window
    /\ UNCHANGED <<now, upstream, cache, call, build>>

\* A handler that answers before its cache block.
Reject(resp) ==
    /\ out' = resp
    /\ UNCHANGED <<now, upstream, cache, inflight, derived, window, call, build>>

Handler(ep, stat, format, parts) ==
    [ep |-> ep, stat |-> stat, format |-> format, parts |-> parts]

\* GET /api/stats/:country
StatsRequest(country) ==
    LET location == Location(country)
    IN  Launch(Handler("stats", "", "",
                       <<StartPart("stats", location, CountryCodeOrWorld(location))>>), TRUE)

\* GET /api/export/:country?format=
ExportRequest(country, format) ==
    LET location == Location(country)
    IN  Launch(Handler("export", "", format,
                       <<StartPart("export", location, CountryCodeOrWorld(location))>>), TRUE)

\* GET /api/share/:stat/:country
ShareRequest(stat, country) ==
    LET location == Location(country)
    IN  Launch(Handler("share", stat, "",
                       <<StartPart("share", location, CountryCodeOrWorld(location))>>), TRUE)

\* A whitelist test that lets every metric key through.
AnyStat(stat) == TRUE

\* validStats.includes(stat)
ValidStat(stat) == \E i \in 1..Len(validStats) : validStats[i] = stat

\* location in countryCodeMap
ValidCountry(location) == HasIn(countryCodeMap, location)

\* GET /api/badge/:stat/:country and GET /api/badge-png/:stat/:country
SingleBadge(ep, stat, country, sharpOk) ==
    LET location == Location(country)
        h0 == Handler(ep, stat, "", <<>>)
    IN  /\ build = "dashboard"
        /\ IF ~ValidStat(stat)
           THEN Reject(Respond(h0, 400, "text/html", Day, "Invalid stat type"))
           ELSE IF ~ValidCountry(location)
                THEN Reject(Respond(h0, 400, "text/html", Day, "Invalid country"))
                ELSE Launch(Handler(ep, stat, "",
                        <<StartPart(ep, location, Get(countryCodeMap, location))>>),
                        sharpOk)

BadgeRequest(stat, country) == SingleBadge("badge", stat, country, TRUE)

BadgePngRequest(stat, country, sharpOk) ==
    SingleBadge("badge-png", stat, country, sharpOk)

\* GET /api/badge/:stat/:country1/:country2 and
\* GET /api/badge-png/:stat/:country1/:country2
CompareBadge(ep, stat, country1, country2, sharpOk) ==
    LET location1 == Location(country1)
        location2 == Location(country2)
        h0 == Handler(ep, stat, "", <<>>)
    IN  /\ build = "comparison"
        /\ IF ~ValidStat(stat)
           THEN Reject(Respond(h0, 400, "text/html", Day, "Invalid stat type"))
           ELSE IF ~ValidCountry(location1) \/ ~ValidCountry(location2)
                THEN Reject(Respond(h0, 400, "text/html", Day, "Invalid country"))
                ELSE Launch(Handler(ep, stat, "",
                        <<StartPart(ep, location1, Get(countryCodeMap, location1)),
                          StartPart(ep, location2, Get(countryCodeMap, location2))>>),
                        sharpOk)

CompareBadgeRequest(stat, country1, country2) ==
    CompareBadge("compare", stat, country1, country2, TRUE)

CompareBadgePngRequest(stat, country1, country2, sharpOk) ==
    CompareBadge("compare-png", stat, country1, country2, sharpOk)

\* A server that resumes a handler only while no other handler is suspended.
AwaitingAlone(h) == BagIn(h, inflight) /\ BagCardinality(inflight) = 1

\* The handler is suspended at its await: its continuation runs when its own
\* promise settles, whatever else is suspended.
Awaiting(h) == BagIn(h, inflight)

\* The provider answers the fetches of the normalizers M of part i of a
\* suspended handler. Each normalizer settles; a rejection reaches the
\* handler's catch block; when the fifth has settled the Snapshot is
\* assembled and stored, and once every part has its Snapshot the handler
\* goes on to its response.
NormalizersSettle(h, i, M, sharpOk) ==
    /\ Awaiting(h)
    /\ i \in 1..Len(h.parts)
    /\ ~PartDone(h.parts[i])
    /\ M /= {}
    /\ M \subseteq PendingOf(h.parts[i])
    /\ \E slots \in {[m \in Stats |->
                        IF m \in M
                        THEN Normalizer(m, h.parts[i].code, upstream)
                        ELSE h.parts[i].slots[m]]} :
       \E stats \in {IF Settled(slots) THEN Snapshot(slots) ELSE Pending} :
       LET p == h.parts[i]
           rejected == \E m \in M : slots[m].c = "throw"
           complete == Settled(slots)
           done == [location |-> p.location, key |-> p.key, hit |-> FALSE,
                    seen |-> p.seen, at |-> p.at, stats |-> stats, ts |-> now]
           h2 == [h EXCEPT !.parts[i] =
                        IF complete THEN done ELSE [p EXCEPT !.slots = slots]]
           rest == inflight (-) SetToBag({h})
       IN  IF rejected
           THEN /\ out' = Failure(h)
                /\ inflight' = rest
                /\ UNCHANGED <<cache, derived, window>>
           ELSE /\ cache' = IF complete THEN CachePut(p.key, stats) ELSE cache
                /\ derived' = IF complete
                              THEN Put(derived, p.key,
                                       [by |-> h.ep, snaps |-> {stats}])
                              ELSE derived
                /\ IF complete /\ AllDone(h2)
                   THEN /\ inflight' = rest
                        /\ out' = AfterStats(h2, sharpOk)
                        /\ window' = Observe(window, out')
                   ELSE /\ inflight' = rest (+) SetToBag({h2})
                        /\ out' = NoResponse
                        /\ window' = window
    /\ UNCHANGED <<now, upstream, call, build>>

----------------------------------------------------------------------------
(* Trend endpoint *)

\* A key template without the purpose prefix.
trendsKeyUnprefixed(stat, location) == stat \o "_" \o location

\* const cacheKey = `trends_${stat}_${location}`
trendsKey(stat, location) == "trends_" \o stat \o "_" \o location

\* const indicatorMap = { ... } inside the trends handler
indicatorMap == Indicator

\* The provider's yearly observations of an indicator, newest first as the
\* provider sends them; values in thousandths, one of them null.
TrendYears ==
    <<[date |-> "2023", value |-> JNum(46437)],
      [date |-> "2022", value |-> JNull],
      [date |-> "2021", value |-> JNum(45981)]>>

TrendItem(y, countryCode) ==
    JObj([value |-> y.value, date |-> y.date,
          country |-> JObj([value |-> countryCode])])

\* The body the provider sends for the trends URL (date=2015:2024,
\* per_page=100). An indicator it does not know gets its error message.
TrendBody(outcome, countryCode, indicator) ==
    LET items(ys) == JArr([i \in 1..Len(ys) |-> TrendItem(ys[i], countryCode)])
    IN  CASE outcome = "json_null" -> JNull
          [] outcome = "no_second" -> JArr(<<JObj([message |-> JNum(1200)])>>)
          [] outcome = "second_null" -> JArr(<<Meta, JNull>>)
          [] outcome = "empty" -> JArr(<<Meta, JArr(<<>>)>>)
          [] outcome = "obs_null" ->
                JArr(<<Meta, items(<<[date |-> "2023", value |-> JNull]>>)>>)
          [] outcome = "obs_zero" ->
                JArr(<<Meta, items(<<[date |-> "2023", value |-> JNum(0)]>>)>>)
          [] OTHER ->
                IF \E m \in Stats : Indicator[m] = indicator
                THEN JArr(<<Meta, items(TrendYears)>>)
                ELSE JArr(<<JObj([message |-> JNum(1200)])>>)

\* parseInt(year) of a four-digit year
parseInt(year) == CHOOSE n \in 1900..2100 : ToString(n) = year

\* Math.round(item.value * 100) / 100, value in thousandths, result in
\* hundredths
Round2(thousandths) == (thousandths + 5) \div 10

\* trendData.push({ year, value, countryName }) for an item whose value is
\* not null
TrendPoint(item) ==
    [year |-> Field(item, "date"),
     value |-> Round2(Field(item, "value").n),
     countryName |-> Field(Field(item, "country"), "value")]

\* The items of data[1] whose value is not null, as points, in order.
RECURSIVE TrendPoints(_)
TrendPoints(items) ==
    IF items = <<>> THEN <<>>
    ELSE IF Field(Head(items), "value").t = "null" THEN TrendPoints(Tail(items))
         ELSE <<TrendPoint(Head(items))>> \o TrendPoints(Tail(items))

\* One point put into a sequence sorted ascending by parseInt(year), after
\* the points of the same year (the sort is stable).
RECURSIVE InsertByYear(_, _)
InsertByYear(sorted, point) ==
    IF sorted = <<>> THEN <<point>>
    ELSE IF parseInt(point.year) < parseInt(Head(sorted).year)
         THEN <<point>> \o sorted
         ELSE <<Head(sorted)>> \o InsertByYear(Tail(sorted), point)

\* A trendData left in the order the provider sent it.
LeaveUnsorted(points) == points

\* trendData.sort((a, b) => parseInt(a.year) - parseInt(b.year))
RECURSIVE SortByYear(_)
SortByYear(points) ==
    IF points = <<>> THEN <<>>
    ELSE InsertByYear(SortByYear(SubSeq(points, 1, Len(points) - 1)),
                      points[Len(points)])

\* trendData built from the parsed body: the loop over data[1] and the sort.
TrendData(data) ==
    IF data.t = "null"
    THEN Throw("TypeError: Cannot read properties of null")
    ELSE IF Truthy(Index(data, 1)) /\ Index(data, 1).t = "array"
         THEN Return(SortByYear(TrendPoints(Index(data, 1).items)))
         ELSE Return(<<>>)

\* A fetch whose failure is swallowed and read as an empty series.
TrendTrySoft(countryCode, indicator, outcome) ==
    IF outcome \in {"network_error", "not_json"} THEN Return(<<>>)
    ELSE TrendData(TrendBody(outcome, countryCode, indicator))

\* The handler from its fetch to the sorted trendData: nothing in it is
\* caught before the handler's own catch block.
TrendTry(countryCode, indicator, outcome) ==
    IF outcome = "network_error" THEN Throw("TypeError: fetch failed")
    ELSE IF outcome = "not_json" THEN Throw("SyntaxError: Unexpected token")
    ELSE TrendData(TrendBody(outcome, countryCode, indicator))

\* The trend part of a handler: what its cache check found, and once it is
\* bound, the TrendSeries.
TrendPart(stat, location) ==
    LET key == trendsKey(stat, location)
        base == [location |-> location, key |-> key, seen |-> Seen(key),
                 at |-> now]
    IN  IF CacheValid(key)
        THEN base @@ [hit |-> TRUE, series |-> ReadCached(key)]
        ELSE base @@ [hit |-> FALSE]

\* A trends handler whose catch block logs the error and sends nothing.
TrendRespondSilentCatch(h, status, body, fetches) ==
    IF status = 500 THEN [status |-> 0]
    ELSE [status |-> status, contentType |-> "application/json",
          cacheControl |-> "(not set)", body |-> body,
          ep |-> h.ep, stat |-> h.stat, parts |-> h.parts, fetches |-> fetches]

\* A response of the trends handler; fetches counts its one upstream call.
TrendRespond(h, status, body, fetches) ==
    [status |-> status, contentType |-> "application/json",
     cacheControl |-> NoHeader, body |-> body,
     ep |-> h.ep, stat |-> h.stat, parts |-> h.parts, fetches |-> fetches]

\* GET /api/trends/:stat/:country up to its await
TrendsRequest(stat, country) ==
    LET location == Location(country)
        part == TrendPart(stat, location)
        h == Handler("trends", stat, "", <<part>>)
    IN  /\ IF part.hit
           THEN /\ out' = TrendRespond(h, 200, part.series, 0)
                /\ inflight' = inflight
           ELSE IF ~Defined(indicatorMap, stat)
                THEN /\ out' = TrendRespond(h, 400, "Invalid stat type", 0)
                     /\ inflight' = inflight
                ELSE /\ Room
                     /\ out' = NoResponse
                     /\ inflight' = inflight (+) SetToBag({
                            [h EXCEPT !.parts[1] = part @@
                                [code |-> CountryCodeOrWorld(location),
                                 indicator |-> Get(indicatorMap, stat)]]})
        /\ UNCHANGED <<now, upstream, cache, derived, window, call, build>>

\* The provider answers the fetch of a suspended trends handler: the series
\* is built, stored and sent, or the catch block answers.
TrendSettles(h) ==
    /\ Awaiting(h)
    /\ h.ep = "trends"
    /\ inflight' = inflight (-) SetToBag({h})
    /\ \E r \in {TrendTry(h.parts[1].code, h.parts[1].indicator, upstream)} :
        LET p == h.parts[1]
            result == [stat |-> h.stat, country |-> p.location, data |-> r.v,
                       indicator |-> p.indicator, lastUpdated |-> now]
            failed == [h EXCEPT !.parts[1] = p @@ [outcome |-> upstream]]
            done == [h EXCEPT !.parts[1] =
                        p @@ [outcome |-> upstream, series |-> result]]
        IN  IF r.c = "throw"
            THEN /\ out' = TrendRespond(failed, 500, "Failed to fetch trend data", 1)
                 /\ cache' = cache
            ELSE /\ out' = TrendRespond(done, 200, result, 1)
                 /\ cache' = CachePut(p.key, result)
    /\ UNCHANGED <<now, upstream, derived, window, call, build>>

\* The suspended handlers that await the five normalizers of a Snapshot.
SnapshotHandlers == {h \in BagToSet(inflight) : h.ep /= "trends"}

\* The suspended handlers of the trends endpoint.
TrendHandlers == {h \in BagToSet(inflight) : h.ep = "trends"}

----------------------------------------------------------------------------
(* Environment *)

Tick(d) ==
    /\ Ticks < MaxTicks
    /\ now' = now + d
    /\ out' = NoResponse
    /\ UNCHANGED <<upstream, cache, inflight, derived, window, call, build>>

UpstreamChange(outcome) ==
    /\ outcome /= upstream
    /\ upstream' = outcome
    /\ out' = NoResponse
    /\ UNCHANGED <<now, cache, inflight, derived, window, call, build>>

----------------------------------------------------------------------------
(* Specification of the dashboard revision under concurrent requests *)

NoCall == [fn |-> "none"]

Init ==
    /\ now = 0
    /\ upstream = "obs"
    /\ cache = <<>>
    /\ inflight = EmptyBag
    /\ out = NoResponse
    /\ derived = <<>>
    /\ window = <<>>
    /\ call = NoCall
    /\ build = "dashboard"

\* In this specification the five fetches of one build are answered in one
\* step: the normalizers touch nothing but their own result, so the order
\* in which they settle is invisible to every other handler.
Next ==
    \/ \E d \in TickSteps : Tick(d)
    \/ \E o \in CoarseOutcomes : UpstreamChange(o)
    \/ \E c \in RequestCountries : StatsRequest(c)
    \/ \E c \in RequestCountries, f \in RequestFormats : ExportRequest(c, f)
    \/ \E s \in RequestStats, c \in RequestCountries : ShareRequest(s, c)
    \/ \E s \in RequestStats, c \in RequestCountries : BadgeRequest(s, c)
    \/ \E s \in RequestStats, c \in RequestCountries, ok \in BOOLEAN :
            BadgePngRequest(s, c, ok)
    \/ \E h \in BagToSet(inflight), ok \in BOOLEAN :
            NormalizersSettle(h, 1, Stats, ok)

Spec == Init /\ [][Next]_vars

----------------------------------------------------------------------------
(* Specification of the fetcher, the fallback lookups and the normalizers,
   each applied once to inputs drawn from every location code, metric and
   upstream outcome *)

LocationCodes == {dashboardCountryCodeMap[k] : k \in DOMAIN dashboardCountryCodeMap}

CallFetcher(countryCode, metric, outcome) ==
    /\ call' = [fn |-> "fetchWorldBankData", countryCode |-> countryCode,
                indicator |-> Indicator[metric], outcome |-> outcome,
                result |-> fetchWorldBankData(countryCode, Indicator[metric],
                                              outcome)]
    /\ UNCHANGED <<now, upstream, cache, inflight, out, derived, window, build>>

CallFallback(metric, countryCode) ==
    /\ call' = [fn |-> "getFallback", metric |-> metric,
                countryCode |-> countryCode,
                result |-> Fallback(metric, countryCode)]
    /\ UNCHANGED <<now, upstream, cache, inflight, out, derived, window, build>>

CallNormalizer(metric, countryCode, outcome) ==
    /\ call' = [fn |-> "normalizer", metric |-> metric,
                countryCode |-> countryCode, outcome |-> outcome,
                result |-> Normalizer(metric, countryCode, outcome)]
    /\ UNCHANGED <<now, upstream, cache, inflight, out, derived, window, build>>

NextFn ==
    \/ \E c \in LocationCodes, m \in Stats, o \in UpstreamOutcomes :
            CallFetcher(c, m, o)
    \/ \E m \in Stats, c \in LocationCodes : CallFallback(m, c)
    \/ \E m \in Stats, c \in LocationCodes, o \in UpstreamOutcomes :
            CallNormalizer(m, c, o)

SpecFn == Init /\ [][NextFn]_vars

----------------------------------------------------------------------------
(* Specification of the badge endpoints of both revisions *)

BadgeStats == {"workforce", "bogus", "toString"}
BadgeCountries == {"mexico"}

InitBadge ==
    /\ now = 0
    /\ upstream = "obs"
    /\ cache = <<>>
    /\ inflight = EmptyBag
    /\ out = NoResponse
    /\ derived = <<>>
    /\ window = <<>>
    /\ call = NoCall
    /\ build \in Builds

NextBadge ==
    \/ \E d \in TickSteps : Tick(d)
    \/ \E s \in BadgeStats, c \in BadgeCountries : BadgeRequest(s, c)
    \/ \E s \in BadgeStats, c \in BadgeCountries, ok \in BOOLEAN :
            BadgePngRequest(s, c, ok)
    \/ \E s \in BadgeStats, c1 \in BadgeCountries, c2 \in BadgeCountries :
            CompareBadgeRequest(s, c1, c2)
    \/ \E s \in BadgeStats, c1 \in BadgeCountries, c2 \in BadgeCountries,
          ok \in BOOLEAN :
            CompareBadgePngRequest(s, c1, c2, ok)
    \/ \E h \in BagToSet(inflight), i \in 1..2, ok \in BOOLEAN :
            NormalizersSettle(h, i, Stats, ok)

SpecBadge == InitBadge /\ [][NextBadge]_vars

----------------------------------------------------------------------------
(* Specification of the location parameter: every endpoint of both
   revisions that serves a Snapshot, asked for a name every object inherits
   and for a name that is configured nowhere *)

LocationInputs == {"toString", "atlantis"}
LocationStats == {"paygap"}

NextLocation ==
    \/ \E c \in LocationInputs : StatsRequest(c)
    \/ \E c \in LocationInputs, f \in RequestFormats : ExportRequest(c, f)
    \/ \E s \in LocationStats, c \in LocationInputs : ShareRequest(s, c)
    \/ \E s \in LocationStats, c \in LocationInputs : BadgeRequest(s, c)
    \/ \E s \in LocationStats, c \in LocationInputs, ok \in BOOLEAN :
            BadgePngRequest(s, c, ok)
    \/ \E s \in LocationStats, c1 \in LocationInputs, c2 \in LocationInputs :
            CompareBadgeRequest(s, c1, c2)
    \/ \E s \in LocationStats, c1 \in LocationInputs, c2 \in LocationInputs,
          ok \in BOOLEAN :
            CompareBadgePngRequest(s, c1, c2, ok)
    \/ \E h \in BagToSet(inflight), i \in 1..2, ok \in BOOLEAN :
            NormalizersSettle(h, i, Stats, ok)

SpecLocation == InitBadge /\ [][NextLocation]_vars

----------------------------------------------------------------------------
(* Specification of the trends endpoint next to the stats endpoint, with the
   provider's behaviour changing between steps and the clock advancing by 24
   hours *)

TrendCountries == {"mexico", "atlantis"}
TrendStats == {"paygap", "stats", "toString"}
TrendOutcomes == {"obs", "network_error", "not_json"}

NextTrends ==
    \/ Tick(CACHE_DURATION)
    \/ \E o \in TrendOutcomes : UpstreamChange(o)
    \/ \E c \in RequestCountries : StatsRequest(c)
    \/ \E s \in TrendStats, c \in TrendCountries : TrendsRequest(s, c)
    \/ \E h \in SnapshotHandlers : NormalizersSettle(h, 1, Stats, TRUE)
    \/ \E h \in TrendHandlers : TrendSettles(h)

SpecTrends == Init /\ [][NextTrends]_vars

----------------------------------------------------------------------------
(* Specification of the two-location badge endpoints of the comparison
   revision, with the clock and the provider's behaviour changing between
   steps *)

CompareStats == {"workforce"}
CompareCountries == {"mexico"}

InitCompare ==
    /\ now = 0
    /\ upstream = "obs"
    /\ cache = <<>>
    /\ inflight = EmptyBag
    /\ out = NoResponse
    /\ derived = <<>>
    /\ window = <<>>
    /\ call = NoCall
    /\ build = "comparison"

NextCompare ==
    \/ Tick(CACHE_DURATION - 1)
    \/ \E o \in CoarseOutcomes : UpstreamChange(o)
    \/ \E s \in CompareStats, c1 \in CompareCountries, c2 \in CompareCountries :
            CompareBadgeRequest(s, c1, c2)
    \/ \E s \in CompareStats, c1 \in CompareCountries, c2 \in CompareCountries,
          ok \in BOOLEAN :
            CompareBadgePngRequest(s, c1, c2, ok)
    \/ \E h \in BagToSet(inflight), i \in 1..2, ok \in BOOLEAN :
            NormalizersSettle(h, i, Stats, ok)

SpecCompare == InitCompare /\ [][NextCompare]_vars

----------------------------------------------------------------------------
(* Specification of the Aggregate Statistics Builder with the five
   normalizers of a build settling one at a time, in any order, while other
   requests arrive *)

InitFan ==
    /\ now = 0
    /\ upstream \in CoarseOutcomes
    /\ cache = <<>>
    /\ inflight = EmptyBag
    /\ out = NoResponse
    /\ derived = <<>>
    /\ window = <<>>
    /\ call = NoCall
    /\ build = "dashboard"

NextFan ==
    \/ \E c \in RequestCountries : StatsRequest(c)
    \/ \E s \in RequestStats, c \in RequestCountries : ShareRequest(s, c)
    \/ \E h \in BagToSet(inflight), m \in Stats :
            NormalizersSettle(h, 1, {m}, TRUE)

SpecFan == InitFan /\ [][NextFan]_vars

----------------------------------------------------------------------------
(* Specification of the renderers and of the trend series construction, each
   applied once to inputs drawn from bounded sets *)

MaxObs == 3     \* observations in one provider response

ObsYears == {"2021", "2022", "2023"}
ObsValues == {JNull, JNum(0), JNum(46437)}

\* The items the provider may send: any year with any value, in any order.
ObsItems == {TrendItem([date |-> y, value |-> v], "MEX") : y \in ObsYears, v \in ObsValues}

ObsLists == UNION {[1..n -> ObsItems] : n \in 0..MaxObs}

CallTrendData(items) ==
    /\ call = NoCall
    /\ call' = [fn |-> "trendData", items |-> items,
                result |-> TrendData(JArr(<<Meta, JArr(items)>>))]
    /\ UNCHANGED <<now, upstream, cache, inflight, out, derived, window, build>>

\* The dates the provider may put on an observation: a plain year, or one
\* that holds a comma. The normalizers copy the date into the year field.
CsvDates == {"2023", "2023,2024"}

\* The Statistics a Snapshot may hold for a metric: the fallback row (it has
\* no year) or the live statistic, with any of the dates as its year.
CsvStatistics(m) ==
    {Fallback(m, "MEX")}
        \cup {[Normalizer(m, "MEX", "obs").v EXCEPT !.year = d] : d \in CsvDates}

CsvSnapshots ==
    {[paygap |-> a, leadership |-> b, maternal |-> c, healthcare |-> d,
      workforce |-> e, lastUpdated |-> 0] :
        a \in CsvStatistics("paygap"), b \in CsvStatistics("leadership"),
        c \in CsvStatistics("maternal"), d \in CsvStatistics("healthcare"),
        e \in CsvStatistics("workforce")}

CallCsv(stats) ==
    /\ call = NoCall
    /\ call' = [fn |-> "csv", stats |-> stats, result |-> Csv(stats)]
    /\ UNCHANGED <<now, upstream, cache, inflight, out, derived, window, build>>

MaxText == 3    \* characters in a text given to escapeSvgText

TextAlphabet == {"&", "<", ">", "\"", "'", ";", "a"}

RECURSIVE TextsUpTo(_)
TextsUpTo(n) ==
    IF n = 0 THEN {""}
    ELSE TextsUpTo(n - 1) \cup {t \o c : t \in TextsUpTo(n - 1), c \in TextAlphabet}

\* Values and details a Statistic may carry into badge markup.
MarkupTexts == {"46%", "<script>alert('x')</script>", "a & b", "\"&lt;\""}

CallEscape(text) ==
    /\ call = NoCall
    /\ call' = [fn |-> "escapeSvgText", text |-> text,
                result |-> escapeSvgText(text)]
    /\ UNCHANGED <<now, upstream, cache, inflight, out, derived, window, build>>

\* The markup of the badge of the running revision: the single-location
\* badge of the first, the two-location badge of the second.
CallBadgeMarkup(stat, location1, location2, data1, data2) ==
    /\ call = NoCall
    /\ call' = [fn |-> "badge", stat |-> stat, data1 |-> data1, data2 |-> data2,
                result |-> IF build = "dashboard"
                           THEN BadgeSvg(stat, data1)
                           ELSE CompareSvg(stat, location1, location2, data1, data2)]
    /\ UNCHANGED <<now, upstream, cache, inflight, out, derived, window, build>>

InitText ==
    /\ now = 0
    /\ upstream = "obs"
    /\ cache = <<>>
    /\ inflight = EmptyBag
    /\ out = NoResponse
    /\ derived = <<>>
    /\ window = <<>>
    /\ call = NoCall
    /\ build \in Builds

NextText ==
    \/ \E items \in ObsLists : CallTrendData(items)
    \/ \E stats \in CsvSnapshots : CallCsv(stats)
    \/ \E text \in TextsUpTo(MaxText) : CallEscape(text)
    \/ \E s \in Stats, l1 \in DOMAIN comparisonCountryCodeMap,
          l2 \in DOMAIN comparisonCountryCodeMap,
          v1 \in MarkupTexts, d1 \in MarkupTexts, v2 \in MarkupTexts :
            CallBadgeMarkup(s, l1, l2, [value |-> v1, detail |-> d1],
                            [value |-> v2, detail |-> d1])

SpecText == InitText /\ [][NextText]_vars

----------------------------------------------------------------------------
(* Properties of the freshness cache under concurrent requests (Spec) *)

\* The entry under key k is present and younger than 24 hours.
FreshEntry(k) == k \in DOMAIN cache /\ now - cache[k].timestamp < CACHE_DURATION

\* The entry under key k is present and its age is not below 24 hours.
StaleEntry(k) == k \in DOMAIN cache /\ now - cache[k].timestamp >= CACHE_DURATION

\* The step sends no response, or the response of endpoint ep.
StepOf(ep) == out'.status /= 0 => out'.ep = ep

\* A request of any Snapshot endpoint for a location starts in this step.
\* (Each request action implies the conjuncts written before it: they only
\* spare evaluating the action on steps that cannot be one.)
SnapshotRequest(c) ==
    /\ now' = now /\ upstream' = upstream
    /\ \/ StepOf("stats") /\ StatsRequest(c)
       \/ StepOf("export") /\ \E f \in RequestFormats : ExportRequest(c, f)
       \/ StepOf("share") /\ \E s \in RequestStats \cap Stats : ShareRequest(s, c)
       \/ StepOf("badge") /\ \E s \in RequestStats \cap Stats : BadgeRequest(s, c)
       \/ StepOf("badge-png") /\ \E s \in RequestStats \cap Stats, ok \in BOOLEAN :
                BadgePngRequest(s, c, ok)

\* The handlers suspended by this step.
Suspended == {h \in BagToSet(inflight') : CopiesIn(h, inflight') > CopiesIn(h, inflight)}

\* The check of part p found no entry, or one whose age was not below 24 h.
FoundNothingFresh(p) ==
    p.seen = <<>> \/ p.at - p.seen[1].timestamp >= CACHE_DURATION

\* C1 (sequential cache hit): a request of the stats, export, share, badge or
\* badge-png endpoint that starts while the entry stats_<location> written by
\* an earlier request is younger than 24 hours is answered without going
\* upstream (zero fetches, nothing suspended), its response is made from the
\* very Snapshot stored in the entry (same five Statistics, same
\* lastUpdated), and the entry is left as it was.
C1_SequentialHit ==
    [][\A c \in RequestCountries :
        LET k == "stats_" \o Location(c)
        IN  (FreshEntry(k) /\ SnapshotRequest(c)) =>
                /\ out'.status /= 0
                /\ out'.fetches = 0
                /\ Len(out'.parts) = 1
                /\ out'.parts[1].stats = cache[k].data
                /\ out'.ep \in {"stats", "export"} /\ out'.contentType /= "text/csv"
                        => out'.body = cache[k].data
                /\ out'.contentType = "text/csv" => out'.body = Csv(cache[k].data)
                /\ cache' = cache
                /\ inflight' = inflight]_vars

\* A stats request that started after time had passed since the entry was
\* written, and was answered with the stored Snapshot.
C1_Witness ==
    /\ out.status = 200 /\ out.ep = "stats" /\ out.fetches = 0
    /\ out.parts[1].hit
    /\ now > cache[out.parts[1].key].timestamp
    /\ out.body = cache[out.parts[1].key].data
    /\ out.body.lastUpdated < now

\* C2 (expiry): a stats request that starts when the age of the entry is not
\* below 24 hours does not answer with it but goes upstream; when it answers
\* it has run the five normalizers, its Snapshot carries a lastUpdated stamped
\* now (later than the stale one), and the entry under the same key holds
\* that Snapshot and the current time.
C2_Expiry ==
    [][/\ \A c \in RequestCountries :
            LET k == "stats_" \o Location(c)
            IN  (StaleEntry(k) /\ StatsRequest(c)) =>
                    /\ out'.status = 0
                    /\ cache' = cache
                    /\ \E h \in Suspended :
                            /\ h.ep = "stats" /\ ~h.parts[1].hit
                            /\ h.parts[1].key = k
                            /\ h.parts[1].seen = <<cache[k]>>
       /\ (/\ out'.status /= 0 /\ out'.ep = "stats"
           /\ ~out'.parts[1].hit
           /\ out'.parts[1].seen /= <<>>
           /\ out'.parts[1].at - out'.parts[1].seen[1].timestamp >= CACHE_DURATION)
          => LET p == out'.parts[1]
             IN  /\ out'.status = 200
                 /\ out'.fetches = 5
                 /\ out'.body = p.stats
                 /\ out'.body.lastUpdated = now'
                 /\ out'.body.lastUpdated > p.seen[1].data.lastUpdated
                 /\ out'.body /= p.seen[1].data
                 /\ cache'[p.key] = [data |-> out'.body, timestamp |-> now']]_vars

\* A stats request found an entry that was exactly 24 hours old and replaced it.
C2_Witness ==
    /\ out.status = 200 /\ out.ep = "stats" /\ out.fetches = 5
    /\ out.parts[1].seen /= <<>>
    /\ out.parts[1].at - out.parts[1].seen[1].timestamp >= CACHE_DURATION
    /\ cache[out.parts[1].key].data = out.body
    /\ out.body.lastUpdated > out.parts[1].seen[1].data.lastUpdated
    /\ inflight = EmptyBag

\* Every part of every handler, suspended or answering.
PartsOf(hs) == UNION {{h.parts[i] : i \in 1..Len(h.parts)} : h \in hs}

\* C3 (one record, many representations): every endpoint reads and writes
\* the key stats_<location>, whichever endpoint it is; a response of any
\* endpoint whose cache check hit took the Snapshot of the entry stored under
\* that key (stored by whichever endpoint) and made no upstream fetch; and a
\* handler goes upstream only if its check under that key found nothing fresh.
C3_OneRecord ==
    /\ \A p \in PartsOf(BagToSet(inflight) \cup (IF out.status = 0 THEN {} ELSE {out})) :
            /\ p.key = "stats_" \o p.location
            /\ ~p.hit => FoundNothingFresh(p)
    /\ \A k \in DOMAIN cache : \E c \in RequestCountries : k = "stats_" \o Location(c)
    /\ DOMAIN derived = DOMAIN cache
    /\ (out.status /= 0 /\ out.parts /= <<>> /\ out.parts[1].hit) =>
            /\ out.fetches = 0
            /\ derived[out.parts[1].key].by \in {"stats", "export", "share", "badge", "badge-png"}
            /\ out.parts[1].stats = cache[out.parts[1].key].data

\* The share card is made from the Snapshot the CSV export stored.
C3_Witness ==
    /\ out.status = 200 /\ out.ep = "share" /\ out.fetches = 0
    /\ out.parts[1].hit
    /\ derived[out.parts[1].key].by = "export"
    /\ out.body.value = cache[out.parts[1].key].data.paygap.value

\* C4 as stated (mutual consistency under any interleaving): the responses
\* for one location produced within one 24-hour window all carry one Snapshot.
C4_AsStated == \A k \in DOMAIN window : Cardinality(window[k].snaps) <= 1

\* C4 (mutual consistency, per cache entry): the responses derived from one
\* cache entry - the response of the request that stored it and every hit on
\* it, from whichever endpoint and with other requests in flight - carry the
\* same Snapshot, the one in the entry (same lastUpdated, same Statistics).
C4_PerEntry == \A k \in DOMAIN derived : derived[k].snaps = {cache[k].data}

\* A hit served from an entry some time after it was stored, while another
\* request for the same location is in flight.
C4_Witness ==
    /\ out.status = 200 /\ out.parts[1].hit
    /\ now > out.parts[1].ts
    /\ derived[out.parts[1].key].snaps = {out.parts[1].stats}
    /\ \E h \in BagToSet(inflight) : h.parts[1].key = out.parts[1].key

\* C5 (accepted race): a request whose cache check missed and that answers
\* after another request has written the key in the meantime has made its own
\* five fetches and writes the entry too: after its write the entry holds
\* exactly its Snapshot (the last write wins). A request that hits afterwards
\* is served the Snapshot the entry holds.
C5_LastWriteWins ==
    [][/\ (/\ out'.status /= 0 /\ out'.parts /= <<>>
           /\ ~out'.parts[1].hit
           /\ out'.parts[1].seen /= Seen(out'.parts[1].key))
          => /\ out'.fetches = 5
             /\ cache'[out'.parts[1].key] =
                    [data |-> out'.parts[1].stats, timestamp |-> now']
       /\ (out'.status /= 0 /\ out'.parts /= <<>> /\ out'.parts[1].hit)
          => /\ out'.parts[1].seen = Seen(out'.parts[1].key)
             /\ out'.parts[1].stats = cache'[out'.parts[1].key].data]_vars

\* Two requests missed the absent key; the one answering now wrote last, and
\* its Snapshot differs from the one the first had served.
C5_Witness ==
    /\ out.status = 200 /\ ~out.parts[1].hit /\ out.parts[1].seen = <<>>
    /\ out.fetches = 5
    /\ cache[out.parts[1].key].data = out.parts[1].stats
    /\ Cardinality(window[out.parts[1].key].snaps) = 2

\* C6 as stated (entry lifecycle): an entry is replaced only when its age is
\* not below 24 hours.
C6_AsStated ==
    [][\A k \in DOMAIN cache :
        (k \in DOMAIN cache' /\ cache'[k] /= cache[k]) =>
            now' - cache[k].timestamp >= CACHE_DURATION]_vars

\* C6 (entry lifecycle, per request): an entry is never removed, and it is
\* replaced only by a request whose own cache check found the key absent or
\* found an entry whose age was not below 24 hours; a request whose check
\* found a fresh entry never writes. The new entry is stamped now.
C6_ReplacedByMissOnly ==
    [][/\ DOMAIN cache \subseteq DOMAIN cache'
       /\ \A k \in DOMAIN cache' :
            (k \notin DOMAIN cache \/ cache'[k] /= cache[k]) =>
                /\ cache'[k].timestamp = now'
                /\ \E p \in PartsOf(BagToSet(inflight)) :
                        /\ p.key = k /\ ~p.hit /\ "slots" \in DOMAIN p
                        /\ FoundNothingFresh(p)
                        /\ p.at <= now']_vars

\* A stale entry is replaced while a second request for the key is in flight.
C6_Witness ==
    /\ out.status /= 0 /\ out.parts /= <<>> /\ ~out.parts[1].hit
    /\ out.parts[1].seen /= <<>>
    /\ out.parts[1].at - out.parts[1].seen[1].timestamp >= CACHE_DURATION
    /\ cache[out.parts[1].key].timestamp = now
    /\ \E h \in BagToSet(inflight) : h.parts[1].key = out.parts[1].key

----------------------------------------------------------------------------
(* Properties of the fetcher, the normalizers and the fallbacks (SpecFn) *)

\* Outcomes after which the response holds no observation.
NoObservation ==
    {"network_error", "not_json", "json_null", "no_second", "second_null", "empty"}

\* C7 (fetcher fail-soft): whatever the location code, the indicator and the
\* upstream outcome, fetchWorldBankData returns; it returns null after a
\* network error, a body that is not JSON, JSON null, JSON without a second
\* element and an empty observation array, and otherwise the first
\* observation of the response or null. It never rejects.
C7_FetcherFailSoft ==
    call.fn = "fetchWorldBankData" =>
        /\ call.result.c = "return"
        /\ call.outcome \in NoObservation => call.result.v = JNull
        /\ \/ call.result.v = JNull
           \/ /\ call.result.v.t = "object"
              /\ call.result.v.fields.country = call.countryCode

\* The body was JSON null: reading its second element threw, null came back.
C7_Witness ==
    /\ call.fn = "fetchWorldBankData" /\ call.outcome = "json_null"
    /\ call.countryCode = "FRA"
    /\ call.result = Return(JNull)

\* C8 (normalizer totality): for each metric, location code and fetcher
\* result, the normalizer returns (never raises) a Statistic whose value and
\* detail are non-empty strings.
C8_NormalizerTotal ==
    call.fn = "normalizer" =>
        /\ call.result.c = "return"
        /\ {"value", "detail"} \subseteq DOMAIN call.result.v
        /\ Len(call.result.v.value) > 0
        /\ Len(call.result.v.detail) > 0

\* The fetcher gave null (network error) and the normalizer gave the fallback.
C8_Witness ==
    /\ call.fn = "normalizer" /\ call.outcome = "network_error"
    /\ call.metric = "maternal" /\ call.countryCode = "DEU"
    /\ call.result.c = "return"
    /\ call.result.v.value = "223"

\* The table a fallback lookup builds for a metric and a location name.
FallbackTable(metric, locationName) ==
    CASE metric = "paygap" -> PayGapFallbacks(locationName)
      [] metric = "leadership" -> LeadershipFallbacks(locationName)
      [] metric = "maternal" -> MaternalMortalityFallbacks(locationName)
      [] metric = "healthcare" -> ContraceptiveAccessFallbacks(locationName)
      [] metric = "workforce" -> WorkforceParticipationFallbacks(locationName)

\* C9 (fallback totality): each of the five fallback lookups returns a
\* Statistic for every location code; for a code without a row of its own
\* (every code but WLD, USA, GBR, CAN) the result is the WLD row of the table.
C9_FallbackTotal ==
    call.fn = "getFallback" =>
        LET table == FallbackTable(call.metric, getLocationName(call.countryCode))
        IN  /\ {"value", "detail", "source"} \subseteq DOMAIN call.result
            /\ Len(call.result.value) > 0
            /\ call.countryCode \notin {"WLD", "USA", "GBR", "CAN"} =>
                    call.result = table["WLD"]
            /\ call.countryCode \in {"WLD", "USA", "GBR", "CAN"} =>
                    call.result = table[call.countryCode]

\* The pay-gap lookup for Mexico gives the world row.
C9_Witness ==
    /\ call.fn = "getFallback" /\ call.metric = "paygap"
    /\ call.countryCode = "MEX"
    /\ call.result.value = "16%"

----------------------------------------------------------------------------
(* Properties of the badge endpoints (SpecBadge) *)

BadgeEndpoints == {"badge", "badge-png", "compare", "compare-png"}

\* C10 (metric whitelist gate): a badge or badge-png request, single-location
\* or two-location, whose metric key is not one of the five is answered 400
\* in the step it arrives, with no cache block run (no read, no fetch), no
\* handler suspended and the cache unchanged.
C10_MetricGate ==
    [][(/\ out'.status /= 0
        /\ out'.ep \in BadgeEndpoints
        /\ out'.stat \notin {"paygap", "leadership", "maternal", "healthcare",
                             "workforce"})
       => /\ out'.status = 400
          /\ out'.body = "Invalid stat type"
          /\ out'.parts = <<>>
          /\ out'.fetches = 0
          /\ cache' = cache
          /\ inflight' = inflight]_vars

\* The two-location PNG endpoint turns away the key toString while the cache
\* holds an entry.
C10_Witness ==
    /\ out.status = 400 /\ out.ep = "compare-png" /\ out.stat = "toString"
    /\ out.parts = <<>>
    /\ cache /= <<>>

----------------------------------------------------------------------------
(* Properties of the location parameter (SpecLocation) *)

\* The locations the running revision is configured with.
ConfiguredLocations == DOMAIN countryCodeMap

\* C11 (location whitelist gate): on the badge endpoints a location that is
\* not a key of countryCodeMap - a name every object inherits included -
\* never gets past the gate: no badge handler is suspended on fetches for it,
\* no badge response is built for it, and no badge request stores an entry
\* for it.
C11_AsStated ==
    /\ \A h \in BagToSet(inflight) : h.ep \in BadgeEndpoints =>
            \A i \in 1..Len(h.parts) : h.parts[i].location \in ConfiguredLocations
    /\ (out.status /= 0 /\ out.ep \in BadgeEndpoints) =>
            \A i \in 1..Len(out.parts) : out.parts[i].location \in ConfiguredLocations
    /\ \A k \in DOMAIN derived : derived[k].by \in BadgeEndpoints =>
            \E l \in ConfiguredLocations : k = "stats_" \o l

\* C12 (share endpoint, invalid metric): a share request whose metric key is
\* not one of the five is answered with a client error (4xx), has made no
\* upstream fetch, and leaves the cache exactly as it was.
C12_AsStated ==
    [][(/\ out'.status /= 0
        /\ out'.ep = "share"
        /\ out'.stat \notin Stats)
       => /\ out'.status \in 400..499
          /\ out'.fetches = 0
          /\ cache' = cache]_vars

\* C13 (stats, export, share: invalid location): a request of the stats,
\* export or share endpoint for a location that is not configured is answered
\* with a client error and no entry is stored for it: the cache holds no key
\* of an unconfigured location, and every other response of these endpoints
\* is for a configured location.
C13_AsStated ==
    /\ \A k \in DOMAIN derived : derived[k].by \in {"stats", "export", "share"} =>
            \E l \in ConfiguredLocations : k = "stats_" \o l
    /\ (out.status /= 0 /\ out.ep \in {"stats", "export", "share"}) =>
            \/ out.status \in 400..499
            \/ \A i \in 1..Len(out.parts) :
                    out.parts[i].location \in ConfiguredLocations

----------------------------------------------------------------------------
(* Properties of the trends endpoint (SpecTrends) *)

\* Outcomes in which the upstream call fails in transport or in parsing.
UpstreamUnavailable == {"network_error", "not_json"}

\* C14 (upstream unavailability is never surfaced): a response of an endpoint
\* that went upstream while the provider could not be reached, or answered
\* with a body that does not parse, is a success response.
C14_AsStated ==
    (/\ out.status /= 0
     /\ out.ep \in {"stats", "export", "share", "badge", "badge-png", "trends"}
     /\ out.fetches > 0
     /\ upstream \in UpstreamUnavailable)
    => out.status = 200

----------------------------------------------------------------------------
(* Properties of the image responses (Spec) *)

\* C15 (Cache-Control of the image endpoints): every 200 response of the
\* badge, badge-png and share endpoints carries 'public, max-age=86400', and
\* every error response (400, 404, 500) carries 'public, max-age=3600'.
C15_AsStated ==
    (out.status /= 0 /\ out.ep \in {"badge", "badge-png", "share"}) =>
        /\ out.status = 200 => out.cacheControl = "public, max-age=86400"
        /\ out.status \in {400, 404, 500} =>
                out.cacheControl = "public, max-age=3600"

----------------------------------------------------------------------------
(* Properties of the two-location badge (SpecCompare) *)

\* C16 (two-location badge, same location twice): whatever the cache holds
\* and however the provider behaves, the comparison badge for (A, A) is a 200
\* response whose two value columns show the same value; the rasterized
\* badge, when it is sent, is made from such markup.
C16_AsStated ==
    (/\ out.status /= 0
     /\ out.ep \in {"compare", "compare-png"}
     /\ Len(out.parts) = 2
     /\ out.parts[1].location = out.parts[2].location)
    => /\ out.ep = "compare" =>
            /\ out.status = 200
            /\ out.body.value1 = out.body.value2
       /\ (out.ep = "compare-png" /\ out.status = 200) =>
            out.body.png.value1 = out.body.png.value2

----------------------------------------------------------------------------
(* Properties of the Aggregate Statistics Builder (SpecFan) *)

\* The value is a Statistic: it has a value and a detail.
IsStatistic(v) == {"value", "detail"} \subseteq DOMAIN v

\* The entry holds the five Statistics and lastUpdated, and nothing else.
WholeSnapshot(data) ==
    /\ DOMAIN data = {"paygap", "leadership", "maternal", "healthcare",
                      "workforce", "lastUpdated"}
    /\ \A m \in Stats : IsStatistic(data[m])

\* C17 (fan-out/fan-in): with the five normalizers of a build completing one
\* at a time in any order, the cache is written only in the step in which the
\* last pending normalizer of a build completes, and what is written is the
\* Snapshot of the five results of that build stamped now; a step that
\* leaves a normalizer pending writes nothing; every entry under a stats key
\* holds all five Statistics plus lastUpdated; and the build never fails (no
\* request that built a Snapshot is answered 500).
C17_FanIn ==
    [][/\ \A k \in DOMAIN cache' : WholeSnapshot(cache'[k].data)
       /\ cache' /= cache =>
            \E h \in BagToSet(inflight) :
                \E m \in PendingOf(h.parts[1]) :
                    /\ PendingOf(h.parts[1]) = {m}
                    /\ out'.status /= 0
                    /\ ~out'.parts[1].hit
                    /\ \A n \in Stats \ {m} :
                            out'.parts[1].stats[n] = h.parts[1].slots[n].v
                    /\ out'.parts[1].stats.lastUpdated = now'
                    /\ cache' = Put(cache, h.parts[1].key,
                                    [data |-> out'.parts[1].stats,
                                     timestamp |-> now'])
       /\ (out'.status /= 0 /\ out'.ep = "stats") => out'.status = 200
       /\ (out'.status /= 0 /\ out'.fetches > 0) => out'.status /= 500]_vars

\* A build whose normalizers completed has stored and sent its Snapshot while
\* a second build for the same key, started before the entry existed, has
\* its workforce result but not yet its paygap result.
C17_Witness ==
    /\ out.status = 200 /\ out.ep = "stats" /\ out.fetches = 5
    /\ WholeSnapshot(cache[out.parts[1].key].data)
    /\ cache[out.parts[1].key].data = out.body
    /\ \E h \in BagToSet(inflight) :
            /\ h.parts[1].key = out.parts[1].key
            /\ h.parts[1].seen = <<>>
            /\ h.parts[1].slots["workforce"].c = "return"
            /\ h.parts[1].slots["paygap"].c = "pending"

----------------------------------------------------------------------------
(* Properties of the key space (SpecTrends) *)

\* The keys the configuration admits: one stats key per configured location
\* and one trends key per metric and configured location.
ConfiguredKeys ==
    {"stats_" \o l : l \in ConfiguredLocations}
        \cup {"trends_" \o m \o "_" \o l : m \in Stats, l \in ConfiguredLocations}

\* C18 (bounded key space without eviction): no step removes a key from the
\* cache, and every key present is a stats key of a configured location or
\* the trends key of a metric and a configured location.
C18_AsStated ==
    [][/\ DOMAIN cache \subseteq DOMAIN cache'
       /\ DOMAIN cache' \subseteq ConfiguredKeys]_vars

----------------------------------------------------------------------------
(* Properties of concurrent requests (SpecTrends) *)

----------------------------------------------------------------------------
(* Properties of the key namespaces (SpecTrends) *)

\* The value is a Snapshot: five Statistics and lastUpdated.
IsSnapshot(v) ==
    DOMAIN v = {"paygap", "leadership", "maternal", "healthcare", "workforce",
                "lastUpdated"}

\* The value is a TrendSeries: metric, location, points, indicator and
\* lastUpdated.
IsTrendSeries(v) ==
    DOMAIN v = {"stat", "country", "data", "indicator", "lastUpdated"}

\* The key is the prefix followed by a location, or by a metric, an
\* underscore and a location.
HasPrefix(key, prefix) ==
    \E l \in TrendCountries \cup RequestCountries, s \in TrendStats \cup {""} :
        \/ key = prefix \o l
        \/ key = prefix \o s \o "_" \o l

\* C20 (key namespacing): every cache entry under a stats_ key holds a
\* Snapshot and every entry under a trends_ key a TrendSeries, and every key
\* is one or the other; for no metric and locations is a stats key equal to
\* a trends key; a stats response carries a Snapshot and a 200 response of
\* the trends endpoint a TrendSeries, whether built or read from the cache.
C20_Namespaces ==
    /\ \A k \in DOMAIN cache :
            \/ HasPrefix(k, "stats_") /\ IsSnapshot(cache[k].data)
            \/ HasPrefix(k, "trends_") /\ IsTrendSeries(cache[k].data)
    /\ \A s \in TrendStats, l1 \in TrendCountries, l2 \in TrendCountries :
            "trends_" \o s \o "_" \o l1 /= "stats_" \o l2
    /\ \A h \in BagToSet(inflight) \cup (IF out.status = 0 THEN {} ELSE {out}) :
            \A i \in 1..Len(h.parts) :
                IF h.ep = "trends"
                THEN /\ HasPrefix(h.parts[i].key, "trends_")
                     /\ \A e \in {h.parts[i].seen[j] : j \in 1..Len(h.parts[i].seen)} :
                            IsTrendSeries(e.data)
                ELSE /\ HasPrefix(h.parts[i].key, "stats_")
                     /\ \A e \in {h.parts[i].seen[j] : j \in 1..Len(h.parts[i].seen)} :
                            IsSnapshot(e.data)
    /\ (out.status = 200 /\ out.ep = "trends") => IsTrendSeries(out.body)
    /\ (out.status = 200 /\ out.ep = "stats") => IsSnapshot(out.body)

\* The trends endpoint answers from its own entry while the cache also holds
\* the Snapshot of the same location under the stats key.
C20_Witness ==
    /\ out.status = 200 /\ out.ep = "trends" /\ out.parts[1].hit
    /\ out.parts[1].key = "trends_paygap_mexico"
    /\ IsTrendSeries(out.body)
    /\ "stats_mexico" \in DOMAIN cache
    /\ IsSnapshot(cache["stats_mexico"].data)

----------------------------------------------------------------------------
(* Properties of the trend series construction and of the renderers
   (SpecText) *)

\* The positions of the provider's list that hold year y with value v.
ItemsWith(items, y, v) ==
    {j \in 1..Len(items) :
        Field(items[j], "date") = y /\ Field(items[j], "value") = v}

\* C21 (trend series construction): for every list of observations, in any
\* order of years and with null values anywhere, the points of the series
\* are in ascending order of year, none of them comes from an observation
\* whose value is null, and each observation whose value is not null (zero
\* included) gives exactly one point with its year and its value rounded to
\* two decimals: as many points as such observations, year by year and value
\* by value.
C21_SeriesConstruction ==
    call.fn = "trendData" =>
        /\ call.result.c = "return"
        /\ \A i \in 1..(Len(call.result.v) - 1) :
                parseInt(call.result.v[i].year) <= parseInt(call.result.v[i + 1].year)
        /\ Len(call.result.v) =
                Cardinality({j \in 1..Len(call.items) :
                                Field(call.items[j], "value") /= JNull})
        /\ \A y \in ObsYears, v \in ObsValues \ {JNull} :
                Cardinality({i \in 1..Len(call.result.v) :
                                /\ call.result.v[i].year = y
                                /\ call.result.v[i].value = (v.n + 5) \div 10})
                    = Cardinality(ItemsWith(call.items, y, v))

\* The provider sent 2023, then 2021 with a null value, then 2022 with the
\* value zero: the series is 2022 (zero), 2023.
C21_Witness ==
    /\ call.fn = "trendData"
    /\ Len(call.items) = 3
    /\ Field(call.items[1], "date") = "2023" /\ Field(call.items[1], "value") = JNum(46437)
    /\ Field(call.items[2], "date") = "2021" /\ Field(call.items[2], "value") = JNull
    /\ Field(call.items[3], "date") = "2022" /\ Field(call.items[3], "value") = JNum(0)
    /\ call.result.c = "return"
    /\ Len(call.result.v) = 2
    /\ call.result.v[1].year = "2022" /\ call.result.v[1].value = 0
    /\ call.result.v[2].year = "2023" /\ call.result.v[2].value = 4644

\* The pieces of a text between the separators at the positions seps, in
\* order.
Pieces(text, seps) ==
    LET nth(k) == CHOOSE x \in seps : Cardinality({y \in seps : y < x}) = k - 1
        from(k) == IF k = 1 THEN 1 ELSE nth(k - 1) + 1
        to(k) == IF k = Cardinality(seps) + 1 THEN Len(text) ELSE nth(k) - 1
    IN  [k \in 1..(Cardinality(seps) + 1) |-> SubSeq(text, from(k), to(k))]

\* The text split at every line feed.
SplitLines(text) ==
    Pieces(text, {i \in 1..Len(text) : SubSeq(text, i, i) = "\n"})

\* A field without the double quotes that enclose it.
Unquoted(field) ==
    IF Len(field) >= 2 /\ SubSeq(field, 1, 1) = "\""
                       /\ SubSeq(field, Len(field), Len(field)) = "\""
    THEN SubSeq(field, 2, Len(field) - 1)
    ELSE field

\* A CSV line parsed into its fields: a comma separates fields unless it
\* stands between double quotes (an odd number of quotes before it), and the
\* enclosing quotes are not part of the field.
CsvFields(line) ==
    LET quotes == {j \in 1..Len(line) : SubSeq(line, j, j) = "\""}
        commas == {i \in 1..Len(line) :
                      /\ SubSeq(line, i, i) = ","
                      /\ Cardinality({j \in quotes : j < i}) % 2 = 0}
        raw == Pieces(line, commas)
    IN  [k \in 1..Len(raw) |-> Unquoted(raw[k])]

CsvTitles ==
    <<"Gender Pay Gap", "Leadership Representation", "Maternal Mortality",
      "Contraceptive Access", "Workforce Participation">>

\* C22 (CSV export round trip): for every Snapshot the CSV text is the header
\* line followed by exactly five rows in the order pay gap, leadership,
\* maternal mortality, contraceptive access, workforce, and parsing each row
\* gives five fields: the metric's title and the Value, Detail, Year and
\* Source of the Snapshot's Statistic (Year and Source empty when absent).
C22_AsStated ==
    call.fn = "csv" =>
        \E lines \in {SplitLines(call.result)} :
            /\ Len(lines) = 6
            /\ lines[1] = "Metric,Value,Detail,Year,Source"
            /\ \A r \in 1..5 :
                    LET statistic == call.stats[validStats[r]]
                    IN  CsvFields(lines[r + 1]) =
                            <<CsvTitles[r], statistic.value, statistic.detail,
                              IF "year" \in DOMAIN statistic THEN statistic.year ELSE "",
                              IF "source" \in DOMAIN statistic THEN statistic.source ELSE "">>

\* The entity that stands for a character, or the character itself.
Entity(ch) ==
    CASE ch = "&" -> "&amp;"
      [] ch = "<" -> "&lt;"
      [] ch = ">" -> "&gt;"
      [] ch = "\"" -> "&quot;"
      [] ch = "'" -> "&apos;"
      [] OTHER -> ch

\* The text with every character replaced by its entity, from position i on.
RECURSIVE EntitiesFrom(_, _)
EntitiesFrom(text, i) ==
    IF i > Len(text) THEN ""
    ELSE Entity(SubSeq(text, i, i)) \o EntitiesFrom(text, i + 1)

\* The text holds none of < > " ' and each & in it starts an entity.
MarkupSafe(text) ==
    \A i \in 1..Len(text) :
        /\ SubSeq(text, i, i) \notin {"<", ">", "\"", "'"}
        /\ SubSeq(text, i, i) = "&" =>
                \E e \in {"&amp;", "&lt;", "&gt;", "&quot;", "&apos;"} :
                    /\ i + Len(e) - 1 <= Len(text)
                    /\ SubSeq(text, i, i + Len(e) - 1) = e

\* C23 (SVG escaping in badges): escapeSvgText replaces each &, <, >, " and '
\* of its input by its entity and leaves every other character, an ampersand
\* of an entity it produced is not escaped again, and its result holds none
\* of <, >, ", ' and no & that does not start one of the five entities; the
\* value and detail of the single-location badge, and the two values, the
\* two location names and the title of the two-location badge, are the
\* escaped texts of the data they are made from.
C23_Escaping ==
    /\ call.fn = "escapeSvgText" =>
            /\ call.result = EntitiesFrom(call.text, 1)
            /\ MarkupSafe(call.result)
    /\ (call.fn = "badge" /\ build = "dashboard") =>
            /\ call.result.value = EntitiesFrom(call.data1.value, 1)
            /\ call.result.detail = EntitiesFrom(call.data1.detail, 1)
            /\ MarkupSafe(call.result.value) /\ MarkupSafe(call.result.detail)
    /\ (call.fn = "badge" /\ build = "comparison") =>
            /\ call.result.value1 = EntitiesFrom(call.data1.value, 1)
            /\ call.result.value2 = EntitiesFrom(call.data2.value, 1)
            /\ \A f \in {"value1", "value2", "name1", "name2", "title"} :
                    MarkupSafe(call.result[f])

\* An ampersand next to a raw angle bracket: the ampersand is escaped once,
\* and the bracket becomes an entity whose ampersand is left alone.
C23_Witness ==
    /\ call.fn = "escapeSvgText"
    /\ call.text = "&;<"
    /\ call.result = "&amp;;&lt;"

----------------------------------------------------------------------------
(* Properties of the raster badges (SpecBadge) *)

\* The vector endpoint that a raster endpoint mirrors.
VectorEndpoint(ep) == IF ep = "badge-png" THEN "badge" ELSE "compare"

\* A response with the endpoint name left out.
Unnamed(resp) == [f \in DOMAIN resp \ {"ep"} |-> resp[f]]

----------------------------------------------------------------------------
(* Properties of freshness and of the stored timestamp (Spec) *)

\* C25 (freshness boundary): the cache check of every request, of whichever
\* endpoint, takes the entry as valid exactly when there is one and the time
\* of the check minus the stored timestamp is strictly below 24 hours; at an
\* age of exactly 24 hours the check misses and the request rebuilds. An
\* entry stores its payload and its timestamp and nothing about freshness.
C25_FreshnessBoundary ==
    /\ \A p \in PartsOf(BagToSet(inflight) \cup (IF out.status = 0 THEN {} ELSE {out})) :
            p.hit <=> (p.seen /= <<>> /\ p.at - p.seen[1].timestamp < CACHE_DURATION)
    /\ \A k \in DOMAIN cache : DOMAIN cache[k] = {"data", "timestamp"}

\* A request that arrived when the entry was exactly 24 hours old rebuilt the
\* Snapshot.
C25_Witness ==
    /\ out.status = 200 /\ out.fetches = 5
    /\ out.parts[1].seen /= <<>>
    /\ out.parts[1].at - out.parts[1].seen[1].timestamp = CACHE_DURATION
    /\ ~out.parts[1].hit
    /\ cache[out.parts[1].key].data = out.parts[1].stats

----------------------------------------------------------------------------
(* Properties of the normalizers' branch choice (SpecFn) *)

\* The source string each normalizer puts on a live statistic.
LiveSource ==
    [paygap |-> "World Bank / ILO", leadership |-> "World Bank / IPU",
     maternal |-> "WHO/UNICEF/UNFPA/World Bank",
     healthcare |-> "World Bank / UN Population Division",
     workforce |-> "World Bank / ILO"]

\* C26 (normalizer branch choice): when the fetcher returns an observation
\* whose value is not null - the value 0 included - the normalizer returns a
\* live statistic: its year is the date of the observation, its source the
\* metric's fixed source string, and it is not the row of the Fallback
\* Table; when the fetcher returns no data or a null value it returns the
\* fallback row.
C26_AsStated ==
    call.fn = "normalizer" =>
        /\ call.result.c = "return"
        /\ call.outcome \in {"obs", "obs_zero"} =>
                /\ "year" \in DOMAIN call.result.v
                /\ call.result.v.year = ToString(Series[call.metric].year)
                /\ call.result.v.source = LiveSource[call.metric]
                /\ call.result.v /= Fallback(call.metric, call.countryCode)
        /\ call.outcome \notin {"obs", "obs_zero"} =>
                call.result.v = Fallback(call.metric, call.countryCode)

----------------------------------------------------------------------------
(* Properties of the trends endpoint's validation and failure (SpecTrends) *)

\* C27 (trend endpoint metric validation): a trends request whose metric is
\* not one of the five metric keys - a name every object inherits included -
\* is answered 400 without an upstream call and without a cache write: no
\* trends handler is suspended on a fetch for such a metric, and every
\* response to such a request is a 400 that made no fetch and left the cache
\* as it was.
C27_AsStated ==
    [][/\ \A h \in BagToSet(inflight') :
            h.ep = "trends" =>
                h.stat \in {"paygap", "leadership", "maternal", "healthcare",
                            "workforce"}
       /\ (/\ out'.status /= 0
           /\ out'.ep = "trends"
           /\ out'.stat \notin {"paygap", "leadership", "maternal",
                                "healthcare", "workforce"})
          => /\ out'.status = 400
             /\ out'.fetches = 0
             /\ cache' = cache]_vars

\* C28 (trend endpoint failure leaves the cache untouched): when the
\* upstream call of a trends request fails in transport or in parsing, the
\* response is 500 with the error text (not a payload, fresh or stale), and
\* the step changes nothing in the cache: no entry is created, and an entry
\* present keeps its payload and its timestamp.
C28_FailureFrame ==
    [][(/\ out'.status /= 0
        /\ out'.ep = "trends"
        /\ out'.fetches = 1
        /\ upstream \in {"network_error", "not_json"})
       => /\ out'.status = 500
          /\ out'.body = "Failed to fetch trend data"
          /\ cache' = cache]_vars

\* A trends request found a stale entry, its fetch failed, it answered 500,
\* and the stale entry is still there with its payload and timestamp.
C28_Witness ==
    /\ out.status = 500 /\ out.ep = "trends" /\ out.fetches = 1
    /\ out.parts[1].seen /= <<>>
    /\ out.parts[1].at - out.parts[1].seen[1].timestamp >= CACHE_DURATION
    /\ cache[out.parts[1].key] = out.parts[1].seen[1]
    /\ out.body = "Failed to fetch trend data"

\* C29 (timestamp monotonicity): the clock never goes back; in every step
\* each entry of the cache stays and its timestamp does not decrease; an
\* entry that a step writes is stamped with the time of that step; and every
\* entry's timestamp is at least the lastUpdated of the payload it holds.
C29_Monotone ==
    [][/\ now' >= now
       /\ \A k \in DOMAIN cache :
            /\ k \in DOMAIN cache'
            /\ cache'[k].timestamp >= cache[k].timestamp
       /\ \A k \in DOMAIN cache' :
            /\ (k \notin DOMAIN cache \/ cache'[k] /= cache[k])
                  => cache'[k].timestamp = now'
            /\ cache'[k].timestamp >= cache'[k].data.lastUpdated]_vars

\* A request has replaced an entry it found expired: the entry now carries
\* the time of the write, later than the timestamp it replaced, and a payload
\* stamped at that same time.
C29_Witness ==
    /\ out.status = 200 /\ out.fetches > 0
    /\ out.parts[1].seen /= <<>>
    /\ cache[out.parts[1].key].timestamp = now
    /\ cache[out.parts[1].key].timestamp > out.parts[1].seen[1].timestamp
    /\ cache[out.parts[1].key].data.lastUpdated = now

----------------------------------------------------------------------------
(* Specification of the dashboard revision with every awaited call completing *)

\* Requests to the stats, export, share, badge, badge-png and trends
\* endpoints for one country, while the provider switches between answering
\* and failing in transport. The clock stands still, so a handler is
\* suspended only when it found no entry.
LiveStats == {"paygap", "bogus", "toString"}

NextLive ==
    \/ \E o \in CoarseOutcomes : UpstreamChange(o)
    \/ \E c \in RequestCountries : StatsRequest(c)
    \/ \E c \in RequestCountries, f \in RequestFormats : ExportRequest(c, f)
    \/ \E s \in LiveStats, c \in RequestCountries : ShareRequest(s, c)
    \/ \E s \in LiveStats, c \in RequestCountries : BadgeRequest(s, c)
    \/ \E s \in LiveStats, c \in RequestCountries, ok \in BOOLEAN :
            BadgePngRequest(s, c, ok)
    \/ \E s \in LiveStats, c \in RequestCountries : TrendsRequest(s, c)
    \/ \E h \in SnapshotHandlers, ok \in BOOLEAN :
            NormalizersSettle(h, 1, Stats, ok)
    \/ \E h \in TrendHandlers : TrendSettles(h)

\* The cache block of a handler that found no entry, at the initial time.
LiveMiss(ep, location, countryCode) ==
    [location |-> location, key |-> cacheKey(ep, location), hit |-> FALSE,
     seen |-> <<>>, at |-> 0,
     code |-> countryCode, slots |-> [m \in Stats |-> Pending]]

\* Every handler this specification can suspend: the code of a configured
\* country is its entry in the dashboard revision's countryCodeMap.
LiveHandlers ==
    UNION {
      LET code == dashboardCountryCodeMap[c]
      IN  {Handler("stats", "", "", <<LiveMiss("stats", c, code)>>)}
          \cup {Handler("export", "", f, <<LiveMiss("export", c, code)>>) :
                  f \in RequestFormats}
          \cup {Handler("share", s, "", <<LiveMiss("share", c, code)>>) :
                  s \in LiveStats}
          \cup {Handler(ep, s, "", <<LiveMiss(ep, c, code)>>) :
                  ep \in {"badge", "badge-png"},
                  s \in {t \in LiveStats : ValidStat(t)}}
          \cup {Handler("trends", s, "",
                        <<[location |-> c, key |-> trendsKey(s, c),
                           seen |-> <<>>, at |-> 0, hit |-> FALSE,
                           code |-> code,
                           indicator |-> Get(indicatorMap, s)]>>) :
                  s \in {t \in LiveStats : Defined(indicatorMap, t)}}
      : c \in RequestCountries}

\* The awaited calls of the suspended handler h have completed and the
\* event loop resumes it: it runs on to its response and is suspended no
\* more. In this specification NormalizersSettle(h, 1, Stats, ok) and
\* TrendSettles(h) are the steps that take h out of the suspended handlers,
\* and one of them is enabled whenever h is suspended.
Resumes(h) ==
    /\ BagIn(h, inflight)
    /\ inflight' = inflight (-) SetToBag({h})

\* Every upstream call a handler issues eventually resolves or rejects.
UpstreamCompletes == \A h \in LiveHandlers : WF_inflight(Resumes(h))

SpecLive == Init /\ [][NextLive]_vars /\ UpstreamCompletes

\* The response in out answers the suspended handler h.
AnswerTo(h) ==
    /\ out.status \in {200, 404, 500}
    /\ out.fetches > 0
    /\ out.ep = h.ep /\ out.stat = h.stat
    /\ out.parts[1].key = h.parts[1].key

\* What a step does to the requests: a response sent with no fetch leaves
\* the suspended handlers alone (the request was answered in its own step
\* and is never resumed); a response sent after fetches takes exactly its
\* own handler out of the suspended ones; a handler leaves only with its
\* response; and a request that is suspended sends nothing in that step.
OneResponse ==
    /\ (out'.status /= 0 /\ out'.fetches = 0) => inflight' = inflight
    /\ (out'.status /= 0 /\ out'.fetches > 0) =>
          \E h \in BagToSet(inflight) :
             /\ inflight' = inflight (-) SetToBag({h})
             /\ out'.ep = h.ep /\ out'.stat = h.stat
             /\ out'.parts[1].key = h.parts[1].key
    /\ out'.status = 0 =>
          \/ inflight' = inflight
          \/ \E h \in BagToSet(inflight') :
                inflight' = inflight (+) SetToBag({h})

\* C30 (every request is answered exactly once): provided every upstream
\* call completes, a request is either answered in the step that receives
\* it or suspended; each suspended handler is eventually answered (200, 404
\* or 500); and a handler leaves the suspended ones in the very step that
\* sends its one response, so nothing is left to send a second.
C30_AnsweredOnce ==
    /\ [](BagToSet(inflight) \subseteq LiveHandlers)
    /\ [][OneResponse]_vars
    /\ \A h \in LiveHandlers : BagIn(h, inflight) ~> AnswerTo(h)

\* The catch block of a trends handler has answered 500 after its fetch
\* failed, while another handler is still suspended.
C30_Witness ==
    /\ out.status = 500 /\ out.ep = "trends" /\ out.fetches = 1
    /\ out.parts[1].outcome = "network_error"
    /\ inflight /= EmptyBag

====
